---- MODULE Spec2Model ----
(***************************************************************************)
(* A model of the aimusicboards-site request handlers (Cloudflare Pages    *)
(* functions over a D1 database): the submissions, scores, votes and       *)
(* vote_ip_locks tables, and the handlers that write them.  Every handler  *)
(* is modelled at the granularity of its store operations: a request       *)
(* occupies a slot of reqs from its first store operation to its answer,   *)
(* and the steps of different requests interleave freely.                  *)
(***************************************************************************)
EXTENDS Integers, Sequences, FiniteSets, TLC

\* ---------------------------------------------------------------- bounds
MaxSubs == 2
MaxReq == 2
MaxSessions == 1
MaxUuid == 1

Ids == 1..MaxSubs
Slots == 1..MaxReq

\* ---------------------------------------------------------------- values
\* A text is a sequence of one-character strings; SQL NULL (and a JSON field
\* that is absent) is a sequence no text can equal.
NULL == <<"NULL">>
Empty == <<>>
NullAt == -1

IsWs(c) == c \in {" ", "\t", "\n"}

RECURSIVE TrimStart(_)
TrimStart(s) ==
  IF s = <<>> THEN <<>>
  ELSE IF IsWs(Head(s)) THEN TrimStart(Tail(s)) ELSE s

RECURSIVE TrimEnd(_)
TrimEnd(s) ==
  IF s = <<>> THEN <<>>
  ELSE IF IsWs(s[Len(s)]) THEN TrimEnd(SubSeq(s, 1, Len(s) - 1)) ELSE s

\* String.prototype.trim
Trim(s) == TrimEnd(TrimStart(s))

\* String(x || dflt): an absent field and the empty string are falsy.
OrDefault(x, dflt) == IF x = NULL \/ x = <<>> THEN dflt ELSE x

Desktop == <<"d", "e", "s", "k", "t", "o", "p">>

\* A JSON number n is carried as the integer 2n, so that a half (7.5 is 15)
\* is a number that is not an integer; Missing is an absent field.
Missing == -1000
NaN == -1001
\* Number(x ?? NaN)
NumberOr(x) == IF x = Missing THEN NaN ELSE x
\* Number.isInteger
IsInteger(h) == h # NaN /\ h % 2 = 0
\* the value of a number that is an integer
IntOf(h) == h \div 2

\* ---------------------------------------------------------------- state
VARIABLES
  ADMIN_TOKEN,     \* env.ADMIN_TOKEN: the configured secret, or "" (not set)
  now,             \* the clock read by nowIso() and Date.now()
  settings,        \* table settings: key -> value, NULL when the key is absent
  submissions,     \* table submissions: id -> row, or NoRow
  scores,          \* table scores: submission_id -> row, or NoRow
  votes,           \* table votes: a set of rows
  vote_ip_locks,   \* table vote_ip_locks: a set of rows
  sessions,        \* the payment processor's checkout sessions, by session id
  reqs             \* the requests in flight and their answers, by slot

vars == <<ADMIN_TOKEN, now, settings, submissions, scores, votes,
          vote_ip_locks, sessions, reqs>>

NoRow == [status |-> "NONE"]
Exists(row) == row.status # "NONE"

\* A slot: the request's handler (op), the store operation it is about to do
\* (pc), what it keeps in local variables, and its answer's status (code).
Idle == [op |-> "idle", pc |-> "idle", code |-> 0, id |-> 0, who |-> NULL,
         ip |-> NULL, val |-> 0, tag |-> "", artist |-> NULL,
         title |-> NULL, track |-> NULL, items |-> <<>>]

\* An answer.  id and who are those of the request where the handler got as
\* far as using them, 0 and NULL otherwise.
Done(op, code, id, who) ==
  [Idle EXCEPT !.op = op, !.pc = "done", !.code = code, !.id = id,
               !.who = who]

At(op, pc, id, who, val) ==
  [Idle EXCEPT !.op = op, !.pc = pc, !.id = id, !.who = who, !.val = val]

\* ---------------------------------------------------------------- _util
\* requireAdmin: the request's Authorization header is <<>> (absent),
\* <<"Bearer ", t>> or <<t>> (no "Bearer " prefix); tokens are strings.
BearerToken(hdr) ==
  IF Len(hdr) = 2 /\ hdr[1] = "Bearer " THEN hdr[2] ELSE ""

\* A variant without the test that a secret is configured.
requireAdminUnset(hdr) ==
  IF BearerToken(hdr) # ADMIN_TOKEN THEN "Unauthorized" ELSE "ok"

requireAdmin(hdr) ==
  IF ADMIN_TOKEN = "" THEN "ADMIN_TOKEN not configured"
  ELSE IF BearerToken(hdr) # ADMIN_TOKEN THEN "Unauthorized"
  ELSE "ok"

\* ---------------------------------------------------------------- admin_claim
\* Variants of the WHERE clause: the earlier handler's (status = 'NEW'), one
\* without the status, one without the owner.
ClaimableNew(row) ==
  /\ row.status = "NEW"
  /\ (row.claimed_by = NULL \/ row.claimed_by = Empty)
ClaimableUnowned(row) == row.claimed_by = NULL \/ row.claimed_by = Empty
ClaimableStatus(row) == row.status \in {"NEW", "SCORED"}

\* WHERE status IN ('NEW','SCORED') AND (claimed_by IS NULL OR claimed_by = '')
Claimable(row) ==
  /\ row.status \in {"NEW", "SCORED"}
  /\ (row.claimed_by = NULL \/ row.claimed_by = Empty)

\* A variant: UPDATE ... WHERE id = ?
ClaimChangesById(id) == IF id \in Ids /\ Exists(submissions[id]) THEN 1 ELSE 0

\* The conditional UPDATE of admin_claim; the number of rows it changes.
ClaimChanges(id) ==
  IF id \in Ids /\ Exists(submissions[id]) /\ Claimable(submissions[id])
  THEN 1 ELSE 0

\* The handler up to and including its UPDATE.
ClaimUpdate(r, hdr, method, id, by_raw) ==
  /\ reqs[r].pc = "idle"
  /\ LET claimed_by == Trim(OrDefault(by_raw, Desktop)) IN
     IF requireAdmin(hdr) # "ok" THEN
       /\ reqs' = [reqs EXCEPT ![r] = Done("claim", 401, 0, NULL)]
       /\ UNCHANGED submissions
     ELSE IF method # "POST" THEN
       /\ reqs' = [reqs EXCEPT ![r] = Done("claim", 405, 0, NULL)]
       /\ UNCHANGED submissions
     ELSE IF id = 0 THEN
       /\ reqs' = [reqs EXCEPT ![r] = Done("claim", 400, 0, NULL)]
       /\ UNCHANGED submissions
     ELSE IF ClaimChanges(id) < 1 THEN
       /\ reqs' = [reqs EXCEPT ![r] = Done("claim", 409, id, NULL)]
       /\ UNCHANGED submissions
     ELSE
       /\ submissions' = [submissions EXCEPT ![id] =
            [@ EXCEPT !.status = "IN_REVIEW",
                      !.claimed_by = claimed_by,
                      !.claimed_at = now]]
       /\ reqs' = [reqs EXCEPT ![r] = At("claim", "select", id, claimed_by, 1)]
  /\ UNCHANGED <<ADMIN_TOKEN, now, settings, scores, votes, vote_ip_locks, sessions>>

\* The SELECT of the claimed row and the answer.
ClaimSelect(r) ==
  /\ reqs[r].op = "claim" /\ reqs[r].pc = "select"
  /\ reqs' = [reqs EXCEPT ![r] = Done("claim", 200, reqs[r].id, reqs[r].who)]
  /\ UNCHANGED <<ADMIN_TOKEN, now, settings, submissions, scores, votes,
               vote_ip_locks, sessions>>

\* ---------------------------------------------------------------- admin resolve
\* String.prototype.toUpperCase, on the tags the inputs use
ToUpperCase(t) ==
  CASE t = "skip" -> "SKIP" [] t = "upnext" -> "UPNEXT"
    [] t = "regular" -> "REGULAR" [] t = "super" -> "SUPER"
    [] t = "done" -> "DONE" [] t = "new" -> "NEW" [] OTHER -> t

\* A variant that also lets a submission be put back.
ResolveAllowedWide == {"REJECTED", "SKIPPED", "DONE", "ARCHIVED", "NEW"}

ResolveAllowed == {"REJECTED", "SKIPPED", "DONE", "ARCHIVED"}

\* trim(), on the status words a request carries
TrimWord(t) == CASE t = " done " -> "done" [] t = " " -> "" [] OTHER -> t

\* (body?.status || "").trim().toUpperCase()
ResolveStatus(status_in) == ToUpperCase(TrimWord(status_in))

\* The whole handler: one UPDATE ... WHERE id = ?.  status_in is the body's
\* status after trim().toUpperCase(), "" when it is absent.
Resolve(r, hdr, id, status_in) ==
  /\ reqs[r].pc = "idle"
  /\ IF requireAdmin(hdr) # "ok" THEN
       /\ reqs' = [reqs EXCEPT ![r] = Done("resolve", 401, 0, NULL)]
       /\ UNCHANGED submissions
     ELSE IF id = 0 \/ ResolveStatus(status_in) = ""
               \/ ResolveStatus(status_in) \notin ResolveAllowed THEN
       /\ reqs' = [reqs EXCEPT ![r] = Done("resolve", 400, 0, NULL)]
       /\ UNCHANGED submissions
     ELSE
       /\ submissions' =
            IF id \in Ids /\ Exists(submissions[id])
            THEN [submissions EXCEPT ![id] =
                   [@ EXCEPT !.status = ResolveStatus(status_in),
                             !.claimed_by = NULL,
                             !.claimed_at = NullAt]]
            ELSE submissions
       /\ reqs' = [reqs EXCEPT ![r] = Done("resolve", 200, id, NULL)]
  /\ UNCHANGED <<ADMIN_TOKEN, now, settings, scores, votes, vote_ip_locks, sessions>>

\* ---------------------------------------------------------------- admin_score
\* A variant without the upper limit
PartBadBelow(x) ==
  LET n == NumberOr(x) IN ~IsInteger(n) \/ IntOf(n) < 0

\* parts.some(n => !Number.isInteger(n) || n < 0 || n > 10), on the numbers
\* Number(body.x ?? NaN)
PartBad(x) ==
  LET n == NumberOr(x) IN ~IsInteger(n) \/ IntOf(n) < 0 \/ IntOf(n) > 10

PartsBad(parts) == \E i \in 1..5 : PartBad(parts[i])

Total(parts) ==
  IntOf(parts[1]) + IntOf(parts[2]) + IntOf(parts[3]) + IntOf(parts[4])
    + IntOf(parts[5])

\* A variant: total > 40
ApprovedAbove(total) == IF total > 40 THEN 1 ELSE 0

\* const approved = total >= 40 ? 1 : 0
Approved(total) == IF total >= 40 THEN 1 ELSE 0

\* INSERT INTO scores ... ON CONFLICT(submission_id) DO UPDATE SET ...: a new
\* row has preview_key NULL; a row that exists keeps its preview_key, the one
\* column the DO UPDATE SET list does not name.
ScoreUpsertRow(old, scored_by, parts, notes) ==
  [status |-> "ROW",
   scored_at |-> now,
   scored_by |-> scored_by,
   lyrics |-> IntOf(parts[1]),
   delivery |-> IntOf(parts[2]),
   production |-> IntOf(parts[3]),
   originality |-> IntOf(parts[4]),
   replay |-> IntOf(parts[5]),
   total |-> Total(parts),
   approved |-> Approved(Total(parts)),
   notes |-> IF Trim(OrDefault(notes, Empty)) = Empty THEN NULL
             ELSE Trim(notes),
   preview_key |-> IF ~Exists(old) THEN NULL ELSE old.preview_key]

\* The handler up to and including the upsert of the score.
ScoreUpsert(r, hdr, method, sid, by_raw, parts, notes) ==
  /\ reqs[r].pc = "idle"
  /\ LET scored_by == OrDefault(by_raw, Desktop) IN
     IF requireAdmin(hdr) # "ok" THEN
       /\ reqs' = [reqs EXCEPT ![r] = Done("score", 401, 0, NULL)]
       /\ UNCHANGED scores
     ELSE IF method # "POST" THEN
       /\ reqs' = [reqs EXCEPT ![r] = Done("score", 405, 0, NULL)]
       /\ UNCHANGED scores
     ELSE IF sid = 0 \/ PartsBad(parts) THEN
       /\ reqs' = [reqs EXCEPT ![r] = Done("score", 400, 0, NULL)]
       /\ UNCHANGED scores
     ELSE
       /\ scores' = [scores EXCEPT ![sid] =
                       ScoreUpsertRow(@, scored_by, parts, notes)]
       /\ reqs' = [reqs EXCEPT ![r] =
                     At("score", "setstatus", sid, NULL, 0)]
  /\ UNCHANGED <<ADMIN_TOKEN, now, settings, submissions, votes, vote_ip_locks,
               sessions>>

\* UPDATE submissions SET status='SCORED' WHERE id=?, and the answer.
\* A variant that sets SCORED only for a submission in review.
ScoreSetStatusReviewed(r) ==
  /\ reqs[r].op = "score" /\ reqs[r].pc = "setstatus"
  /\ LET sid == reqs[r].id IN
     /\ submissions' =
          IF Exists(submissions[sid]) /\ submissions[sid].status = "IN_REVIEW"
          THEN [submissions EXCEPT ![sid] = [@ EXCEPT !.status = "SCORED"]]
          ELSE submissions
     /\ reqs' = [reqs EXCEPT ![r] = Done("score", 200, sid, NULL)]
  /\ UNCHANGED <<ADMIN_TOKEN, now, settings, scores, votes, vote_ip_locks, sessions>>

ScoreSetStatus(r) ==
  /\ reqs[r].op = "score" /\ reqs[r].pc = "setstatus"
  /\ LET sid == reqs[r].id IN
     /\ submissions' =
          IF Exists(submissions[sid])
          THEN [submissions EXCEPT ![sid] = [@ EXCEPT !.status = "SCORED"]]
          ELSE submissions
     /\ reqs' = [reqs EXCEPT ![r] = Done("score", 200, sid, NULL)]
  /\ UNCHANGED <<ADMIN_TOKEN, now, settings, scores, votes, vote_ip_locks, sessions>>

\* ---------------------------------------------------------------- admin_upload_preview
PreviewExts == {"mp3", "m4a", "wav", "aac", "ogg"}

PreviewKey(sid, ext) == <<"previews/", ToString(sid), ".", ext>>

\* The whole handler; form_ok stands for a multipart body with a file of at
\* most 6MB.  The blob store is not modelled.
UploadPreview(r, hdr, method, form_ok, sid, ext) ==
  /\ reqs[r].pc = "idle"
  /\ IF requireAdmin(hdr) # "ok" THEN
       /\ reqs' = [reqs EXCEPT ![r] = Done("preview", 401, 0, NULL)]
       /\ UNCHANGED scores
     ELSE IF method # "POST" THEN
       /\ reqs' = [reqs EXCEPT ![r] = Done("preview", 405, 0, NULL)]
       /\ UNCHANGED scores
     ELSE IF ~form_ok \/ sid = 0 \/ ext \notin PreviewExts THEN
       /\ reqs' = [reqs EXCEPT ![r] = Done("preview", 400, 0, NULL)]
       /\ UNCHANGED scores
     ELSE
       /\ scores' =
            IF Exists(scores[sid])
            THEN [scores EXCEPT ![sid] =
                    [@ EXCEPT !.preview_key = PreviewKey(sid, ext)]]
            ELSE scores
       /\ reqs' = [reqs EXCEPT ![r] = Done("preview", 200, sid, NULL)]
  /\ UNCHANGED <<ADMIN_TOKEN, now, settings, submissions, votes, vote_ip_locks,
               sessions>>

\* ---------------------------------------------------------------- admin submissions toggle
\* getSetting / setSetting on the key submissions_open
\* A variant that answers without reading the store.
getSettingUnread(key) == "1"

getSetting(key) == settings[key]

AdminToggle(r, hdr, method, open_in) ==
  /\ reqs[r].pc = "idle"
  /\ IF requireAdmin(hdr) # "ok" THEN
       /\ reqs' = [reqs EXCEPT ![r] = Done("toggle", 401, 0, NULL)]
       /\ UNCHANGED settings
     ELSE IF method = "GET" THEN
       /\ reqs' = [reqs EXCEPT ![r] = Done("toggle", 200, 0, NULL)]
       /\ UNCHANGED settings
     ELSE IF method # "POST" THEN
       /\ reqs' = [reqs EXCEPT ![r] = Done("toggle", 405, 0, NULL)]
       /\ UNCHANGED settings
     ELSE
       /\ settings' = [settings EXCEPT !["submissions_open"] =
                         IF open_in = TRUE THEN "1" ELSE "0"]
       /\ reqs' = [reqs EXCEPT ![r] = Done("toggle", 200, 0, NULL)]
  /\ UNCHANGED <<ADMIN_TOKEN, now, submissions, scores, votes, vote_ip_locks,
                 sessions>>

\* ---------------------------------------------------------------- submit
\* String.prototype.toLowerCase, on the letters the inputs use
LowerChar(c) == CASE c = "A" -> "a" [] c = "B" -> "b" [] OTHER -> c

Lower(s) == [i \in 1..Len(s) |-> LowerChar(s[i])]

\* replace(/\s+/g, " "): every run of whitespace becomes one space
RECURSIVE CollapseWs(_)
CollapseWs(s) ==
  IF s = <<>> THEN <<>>
  ELSE IF IsWs(Head(s))
       THEN <<" ">> \o CollapseWs(TrimStart(Tail(s)))
       ELSE <<Head(s)>> \o CollapseWs(Tail(s))

\* x.toLowerCase().replace(/\s+/g, " ").trim()
NormJs(s) == Trim(CollapseWs(Lower(s)))

\* SQL TRIM(x): removes the spaces at both ends, and nothing else
RECURSIVE SqlTrimStart(_)
SqlTrimStart(s) ==
  IF s = <<>> THEN <<>>
  ELSE IF Head(s) = " " THEN SqlTrimStart(Tail(s)) ELSE s

RECURSIVE SqlTrimEnd(_)
SqlTrimEnd(s) ==
  IF s = <<>> THEN <<>>
  ELSE IF s[Len(s)] = " " THEN SqlTrimEnd(SubSeq(s, 1, Len(s) - 1)) ELSE s

\* LOWER(TRIM(x))
SqlLowerTrim(s) == Lower(SqlTrimEnd(SqlTrimStart(s)))

\* A track reference is a sequence of tokens: a key <<"uploads/", n, ".", e>>
\* or a URL <<"https://", host, "/r2/", "uploads/", n, ".", e>>.
IsUrl(t) == t # <<>> /\ t[1] \in {"http://", "https://"}

\* m = pathname.match(/\/r2\/(uploads\/.+)$/); if (m) track_key = m[1]
KeyOfUrl(t) ==
  IF \E i \in 2..(Len(t) - 2) : t[i] = "/r2/" /\ t[i + 1] = "uploads/"
  THEN LET i == CHOOSE i \in 2..(Len(t) - 2) :
                  t[i] = "/r2/" /\ t[i + 1] = "uploads/"
       IN SubSeq(t, i + 1, Len(t))
  ELSE t

normalizeTrackKey(t) == IF IsUrl(t) THEN KeyOfUrl(t) ELSE t

AllowedExt == {"mp3", "m4a", "wav", "aac", "ogg"}

\* (track_key.split(".").pop() || "").toLowerCase()
ExtOf(t) ==
  IF Len(t) >= 2 /\ t[Len(t) - 1] = "."
  THEN (CASE t[Len(t)] = "MP3" -> "mp3" [] OTHER -> t[Len(t)])
  ELSE ""

TrackKeyValid(t) == t # <<>> /\ t[1] = "uploads/" /\ ExtOf(t) \in AllowedExt

Active(row) == row.status \in {"NEW", "IN_REVIEW"}

\* SELECT id FROM submissions WHERE track_url = ? AND status IN (...)
DupeKey(track) ==
  \E i \in Ids : Active(submissions[i]) /\ submissions[i].track_url = track

\* SELECT id FROM submissions WHERE LOWER(TRIM(artist_name)) = ? AND
\* LOWER(TRIM(track_title)) = ? AND status IN (...)
DupeName(normArtist, normTitle) ==
  \E i \in Ids :
    /\ Active(submissions[i])
    /\ SqlLowerTrim(submissions[i].artist_name) = normArtist
    /\ SqlLowerTrim(submissions[i].track_title) = normTitle

\* uuid(): an id no row has
FreshId == CHOOSE i \in Ids : ~Exists(submissions[i]) /\
                              \A j \in Ids : ~Exists(submissions[j]) => i <= j

\* The row INSERT INTO submissions (..., priority, paid, status) VALUES
\* (..., 0, 0, 'NEW') makes, with the columns' defaults.
SubmitRow(artist, title, track) ==
  [status |-> "NEW", claimed_by |-> NULL, claimed_at |-> NullAt,
   created_at |-> now, artist_name |-> artist, track_title |-> title,
   track_url |-> track, priority |-> 0, paid |-> 0,
   payment_status |-> "NONE", paid_type |-> "NULL",
   stripe_session_id |-> 0]

\* The handler up to its first duplicate query: method, the setting, the
\* body's fields.  genre_ok stands for a non-empty genre.
SubmitOpen(r, method, body_ok, artist_raw, title_raw, genre_ok, track_raw) ==
  /\ reqs[r].pc = "idle"
  /\ LET artist_name == Trim(OrDefault(artist_raw, Empty))
         track_title == Trim(OrDefault(title_raw, Empty))
         track_in == Trim(OrDefault(track_raw, Empty))
         track_key == normalizeTrackKey(track_in)
     IN
     IF method # "POST" THEN
       reqs' = [reqs EXCEPT ![r] = Done("submit", 405, 0, NULL)]
     ELSE IF getSetting("submissions_open") # "1" THEN
       reqs' = [reqs EXCEPT ![r] = Done("submit", 403, 0, NULL)]
     ELSE IF ~body_ok THEN
       reqs' = [reqs EXCEPT ![r] = Done("submit", 400, 0, NULL)]
     ELSE IF artist_name = Empty \/ track_title = Empty \/ ~genre_ok
               \/ track_in = Empty THEN
       reqs' = [reqs EXCEPT ![r] = Done("submit", 400, 0, NULL)]
     ELSE IF ~TrackKeyValid(track_key) THEN
       reqs' = [reqs EXCEPT ![r] = Done("submit", 400, 0, NULL)]
     ELSE
       reqs' = [reqs EXCEPT ![r] =
                  [Idle EXCEPT !.op = "submit", !.pc = "dupeKey",
                               !.artist = artist_name, !.title = track_title,
                               !.track = track_key]]
  /\ UNCHANGED <<ADMIN_TOKEN, now, settings, submissions, scores, votes,
                 vote_ip_locks, sessions>>

SubmitDupeKey(r) ==
  /\ reqs[r].op = "submit" /\ reqs[r].pc = "dupeKey"
  /\ IF DupeKey(reqs[r].track)
     THEN reqs' = [reqs EXCEPT ![r] = Done("submit", 409, 0, NULL)]
     ELSE reqs' = [reqs EXCEPT ![r] = [@ EXCEPT !.pc = "dupeName"]]
  /\ UNCHANGED <<ADMIN_TOKEN, now, settings, submissions, scores, votes,
                 vote_ip_locks, sessions>>

SubmitDupeName(r) ==
  /\ reqs[r].op = "submit" /\ reqs[r].pc = "dupeName"
  /\ IF DupeName(NormJs(reqs[r].artist), NormJs(reqs[r].title))
     THEN reqs' = [reqs EXCEPT ![r] = Done("submit", 409, 0, NULL)]
     ELSE reqs' = [reqs EXCEPT ![r] = [@ EXCEPT !.pc = "insert"]]
  /\ UNCHANGED <<ADMIN_TOKEN, now, settings, submissions, scores, votes,
                 vote_ip_locks, sessions>>

SubmitInsert(r) ==
  /\ reqs[r].op = "submit" /\ reqs[r].pc = "insert"
  /\ \E i \in Ids : ~Exists(submissions[i])
  /\ submissions' = [submissions EXCEPT ![FreshId] =
                       SubmitRow(reqs[r].artist, reqs[r].title, reqs[r].track)]
  /\ reqs' = [reqs EXCEPT ![r] = Done("submit", 200, FreshId, NULL)]
  /\ UNCHANGED <<ADMIN_TOKEN, now, settings, scores, votes, vote_ip_locks,
                 sessions>>

\* const priority = paid_type === "UPNEXT" ? 2 : 1
PriorityOf(paid_type) == IF paid_type = "UPNEXT" THEN 2 ELSE 1

\* ---------------------------------------------------------------- paid_checkout
\* The paid-intent row: ... VALUES (..., ?, 0, 'NEW', 'PENDING', ?)
PaidIntentRow(artist, title, track, paid_type) ==
  [SubmitRow(artist, title, track) EXCEPT
     !.priority = PriorityOf(paid_type),
     !.payment_status = "PENDING",
     !.paid_type = paid_type]

\* A variant of the paid checkout that is closed with the free submissions.
PaidStartGated(r, method, body_ok, sid_in, ptype_raw, song, genre_ok) ==
  /\ reqs[r].pc = "idle"
  /\ LET paid_type == ToUpperCase(ptype_raw)
         artist_name == Trim(OrDefault(song.artist, Empty))
         track_title == Trim(OrDefault(song.title, Empty))
         track_in == Trim(OrDefault(song.track, Empty))
         track_key == normalizeTrackKey(track_in)
     IN
     IF method # "POST" THEN
       /\ reqs' = [reqs EXCEPT ![r] = Done("paid", 405, 0, NULL)]
       /\ UNCHANGED submissions
     ELSE IF getSetting("submissions_open") # "1" THEN
       /\ reqs' = [reqs EXCEPT ![r] = Done("paid", 403, 0, NULL)]
       /\ UNCHANGED submissions
     ELSE IF ~body_ok \/ paid_type \notin {"SKIP", "UPNEXT"} THEN
       /\ reqs' = [reqs EXCEPT ![r] = Done("paid", 400, 0, NULL)]
       /\ UNCHANGED submissions
     ELSE IF sid_in = 0 THEN
       IF artist_name = Empty \/ track_title = Empty \/ ~genre_ok
            \/ track_in = Empty \/ ~TrackKeyValid(track_key) THEN
         /\ reqs' = [reqs EXCEPT ![r] = Done("paid", 400, 0, NULL)]
         /\ UNCHANGED submissions
       ELSE
         /\ \E i \in Ids : ~Exists(submissions[i])
         /\ submissions' = [submissions EXCEPT ![FreshId] =
              PaidIntentRow(artist_name, track_title, track_key, paid_type)]
         /\ reqs' = [reqs EXCEPT ![r] =
              [Idle EXCEPT !.op = "paid", !.pc = "stripe", !.id = FreshId,
                           !.tag = paid_type]]
     ELSE IF ~Exists(submissions[sid_in]) THEN
       /\ reqs' = [reqs EXCEPT ![r] = Done("paid", 404, sid_in, NULL)]
       /\ UNCHANGED submissions
     ELSE
       /\ reqs' = [reqs EXCEPT ![r] =
            [Idle EXCEPT !.op = "paid", !.pc = "stripe", !.id = sid_in,
                         !.tag = paid_type]]
       /\ UNCHANGED submissions
  /\ UNCHANGED <<ADMIN_TOKEN, now, settings, scores, votes, vote_ip_locks,
                 sessions>>

\* The handler up to the call of the payment processor: with no submission_id
\* it inserts a paid-intent row, with one it looks the row up.  song is the
\* body's artist_name, track_title and track_key.
PaidStart(r, method, body_ok, sid_in, ptype_raw, song, genre_ok) ==
  /\ reqs[r].pc = "idle"
  /\ LET paid_type == ToUpperCase(ptype_raw)
         artist_name == Trim(OrDefault(song.artist, Empty))
         track_title == Trim(OrDefault(song.title, Empty))
         track_in == Trim(OrDefault(song.track, Empty))
         track_key == normalizeTrackKey(track_in)
     IN
     IF method # "POST" THEN
       /\ reqs' = [reqs EXCEPT ![r] = Done("paid", 405, 0, NULL)]
       /\ UNCHANGED submissions
     ELSE IF ~body_ok \/ paid_type \notin {"SKIP", "UPNEXT"} THEN
       /\ reqs' = [reqs EXCEPT ![r] = Done("paid", 400, 0, NULL)]
       /\ UNCHANGED submissions
     ELSE IF sid_in = 0 THEN
       IF artist_name = Empty \/ track_title = Empty \/ ~genre_ok
            \/ track_in = Empty \/ ~TrackKeyValid(track_key) THEN
         /\ reqs' = [reqs EXCEPT ![r] = Done("paid", 400, 0, NULL)]
         /\ UNCHANGED submissions
       ELSE
         /\ \E i \in Ids : ~Exists(submissions[i])
         /\ submissions' = [submissions EXCEPT ![FreshId] =
              PaidIntentRow(artist_name, track_title, track_key, paid_type)]
         /\ reqs' = [reqs EXCEPT ![r] =
              [Idle EXCEPT !.op = "paid", !.pc = "stripe", !.id = FreshId,
                           !.tag = paid_type]]
     ELSE IF ~Exists(submissions[sid_in]) THEN
       /\ reqs' = [reqs EXCEPT ![r] = Done("paid", 404, sid_in, NULL)]
       /\ UNCHANGED submissions
     ELSE
       /\ reqs' = [reqs EXCEPT ![r] =
            [Idle EXCEPT !.op = "paid", !.pc = "stripe", !.id = sid_in,
                         !.tag = paid_type]]
       /\ UNCHANGED submissions
  /\ UNCHANGED <<ADMIN_TOKEN, now, settings, scores, votes, vote_ip_locks,
                 sessions>>

\* fetch("https://api.stripe.com/v1/checkout/sessions"): the processor makes
\* a session that carries the metadata, or the call fails.
PaidStripe(r, ok) ==
  /\ reqs[r].op = "paid" /\ reqs[r].pc = "stripe"
  /\ IF ok THEN
       /\ Len(sessions) < MaxSessions
       /\ sessions' = Append(sessions, [submission_id |-> reqs[r].id,
                                        paid_type |-> reqs[r].tag])
       /\ reqs' = [reqs EXCEPT ![r] =
                     [@ EXCEPT !.pc = "mark", !.val = Len(sessions) + 1]]
     ELSE
       /\ reqs' = [reqs EXCEPT ![r] = Done("paid", 500, reqs[r].id, NULL)]
       /\ UNCHANGED sessions
  /\ UNCHANGED <<ADMIN_TOKEN, now, settings, submissions, scores, votes,
                 vote_ip_locks>>

\* UPDATE submissions SET payment_status = 'PENDING', paid_type = ?,
\* stripe_session_id = ? WHERE id = ?
PaidMark(r) ==
  /\ reqs[r].op = "paid" /\ reqs[r].pc = "mark"
  /\ LET id == reqs[r].id IN
     /\ submissions' =
          IF Exists(submissions[id])
          THEN [submissions EXCEPT ![id] =
                  [@ EXCEPT !.payment_status = "PENDING",
                            !.paid_type = reqs[r].tag,
                            !.stripe_session_id = reqs[r].val]]
          ELSE submissions
     /\ reqs' = [reqs EXCEPT ![r] = Done("paid", 200, id, NULL)]
  /\ UNCHANGED <<ADMIN_TOKEN, now, settings, scores, votes, vote_ip_locks,
                 sessions>>

\* ---------------------------------------------------------------- stripe_webhook
WebhookSecret == "whsec"
toleranceSec == 300

\* hmacSha256Hex(secret, `${t}.${rawBody}`): a value that determines, and is
\* determined by, the key and the signed payload.
hmacSha256Hex(secret, t, rawBody) == <<secret, t, rawBody>>

\* A raw body: JSON (an event) or not.
EventBody(type, session_id, paid_type) ==
  [json |-> TRUE, type |-> type, id |-> session_id, paid_type |-> paid_type]
Garbage == [json |-> FALSE, type |-> "", id |-> 0, paid_type |-> ""]

\* The signature header: absent, or t and the v1 signatures it lists.
NoSig == [present |-> FALSE, t |-> 0, v1 |-> {}]
SigHeader(t, v1) == [present |-> TRUE, t |-> t, v1 |-> v1]

Abs(x) == IF x < 0 THEN -x ELSE x

\* A variant without the tolerance on the timestamp
WebhookRejectAnyTime(method, sig, rawBody) ==
  IF method # "POST" THEN 405
  ELSE IF ~sig.present THEN 400
  ELSE IF sig.v1 = {} THEN 400
  ELSE IF ~\E v \in sig.v1 :
             v = hmacSha256Hex(WebhookSecret, sig.t, rawBody) THEN 400
  ELSE IF ~rawBody.json THEN 400
  ELSE IF rawBody.type = "checkout.session.completed" /\ rawBody.id = 0
       THEN 400
  ELSE 0

\* What the verification answers: 0 when the notification is accepted.
WebhookReject(method, sig, rawBody) ==
  IF method # "POST" THEN 405
  ELSE IF ~sig.present THEN 400
  ELSE IF sig.v1 = {} THEN 400
  ELSE IF Abs(now - sig.t) > toleranceSec THEN 400
  ELSE IF ~\E v \in sig.v1 :
             v = hmacSha256Hex(WebhookSecret, sig.t, rawBody) THEN 400
  ELSE IF ~rawBody.json THEN 400
  ELSE IF rawBody.type = "checkout.session.completed" /\ rawBody.id = 0
       THEN 400
  ELSE 0

\* A variant: priority = priority + ?
WebhookUpdateAdds(sessionId, paid_type) ==
  [i \in Ids |->
     IF Exists(submissions[i]) /\ submissions[i].stripe_session_id = sessionId
     THEN [submissions[i] EXCEPT
             !.payment_status = "PAID",
             !.paid = 1,
             !.priority = @ + PriorityOf(paid_type),
             !.paid_type = IF @ = "NULL" THEN paid_type ELSE @]
     ELSE submissions[i]]

\* A variant: with the line ", status = 'NEW'" in the statement
WebhookUpdateNew(sessionId, paid_type) ==
  [i \in Ids |->
     IF Exists(submissions[i]) /\ submissions[i].stripe_session_id = sessionId
     THEN [submissions[i] EXCEPT
             !.payment_status = "PAID",
             !.paid = 1,
             !.priority = PriorityOf(paid_type),
             !.paid_type = IF @ = "NULL" THEN paid_type ELSE @,
             !.status = "NEW"]
     ELSE submissions[i]]

\* UPDATE submissions SET payment_status = 'PAID', paid = 1, priority = ?,
\* paid_type = COALESCE(paid_type, ?) WHERE stripe_session_id = ?
WebhookUpdate(sessionId, paid_type) ==
  [i \in Ids |->
     IF Exists(submissions[i]) /\ submissions[i].stripe_session_id = sessionId
     THEN [submissions[i] EXCEPT
             !.payment_status = "PAID",
             !.paid = 1,
             !.priority = PriorityOf(paid_type),
             !.paid_type = IF @ = "NULL" THEN paid_type ELSE @]
     ELSE submissions[i]]

\* The whole handler.
Webhook(r, method, sig, rawBody) ==
  /\ reqs[r].pc = "idle"
  /\ LET rej == WebhookReject(method, sig, rawBody) IN
     IF rej # 0 THEN
       /\ reqs' = [reqs EXCEPT ![r] = Done("webhook", rej, 0, NULL)]
       /\ UNCHANGED submissions
     ELSE IF rawBody.type = "checkout.session.completed" THEN
       /\ submissions' = WebhookUpdate(rawBody.id, ToUpperCase(rawBody.paid_type))
       /\ reqs' = [reqs EXCEPT ![r] = Done("webhook", 200, rawBody.id, NULL)]
     ELSE
       /\ reqs' = [reqs EXCEPT ![r] = Done("webhook", 200, 0, NULL)]
       /\ UNCHANGED submissions
  /\ UNCHANGED <<ADMIN_TOKEN, now, settings, scores, votes, vote_ip_locks,
                 sessions>>

\* ---------------------------------------------------------------- vote
VOTE_SALT == <<"salt">>

\* sha256Hex(`${ip}:${salt}`): a value that determines, and is determined
\* by, the address and the salt.
sha256Hex(ip, salt) == <<"sha256">> \o ip \o <<":">> \o salt

\* getClientIp: the CF-Connecting-IP header, or "0.0.0.0" without one (the
\* requests of the model carry no X-Forwarded-For header)
getClientIp(ip_hdr) == IF ip_hdr = NULL THEN <<"0.0.0.0">> ELSE ip_hdr

\* Math.trunc
Trunc(h) == IF h >= 0 THEN h \div 2 ELSE -((-h) \div 2)

\* clampInt(n, 1, 10), then the handler's !rating: 0 stands for null
clampInt(n, min, max) ==
  LET x == NumberOr(n) IN
  IF x = NaN THEN 0
  ELSE IF Trunc(x) < min \/ Trunc(x) > max THEN 0
  ELSE Trunc(x)

\* A variant: !!row
isScoredSong(submissionId) == Exists(scores[submissionId])

\* isLeaderboardSong: !!row && Number(row.total || 0) >= 40
isLeaderboardSong(submissionId) ==
  Exists(scores[submissionId]) /\ scores[submissionId].total >= 40

\* makeVoterId(): crypto.randomUUID(), an id no vote and no request holds
Uuid(k) == <<"uuid", ToString(k)>>
UuidFree(k) ==
  /\ \A v \in votes : v.voter_id # Uuid(k)
  /\ \A q \in Slots : reqs[q].op = "vote" => reqs[q].who # Uuid(k)
makeVoterId == Uuid(CHOOSE k \in 1..MaxUuid : UuidFree(k))

\* The uniqueness constraints of the two tables (the schema is not part of
\* the sources; the handler's catch blocks tell them by the error message).
LockUniqueViolation(sid, ip_hash) ==
  \E l \in vote_ip_locks : l.submission_id = sid /\ l.ip_hash = ip_hash

VoteUniqueViolation(sid, voter_id) ==
  \E v \in votes : v.submission_id = sid /\ v.voter_id = voter_id

\* The handler up to the insert of the lock: the body, the eligibility
\* query, the cookie and the address.
VoteCheck(r, body_ok, sid, rating_raw, cookie, ip_hdr) ==
  /\ reqs[r].pc = "idle"
  /\ LET rating == clampInt(rating_raw, 1, 10)
         cookie_id == Trim(OrDefault(cookie, Empty))
     IN
     IF ~body_ok THEN
       reqs' = [reqs EXCEPT ![r] = Done("vote", 400, 0, NULL)]
     ELSE IF sid = 0 \/ rating = 0 THEN
       reqs' = [reqs EXCEPT ![r] = Done("vote", 400, 0, NULL)]
     ELSE IF ~isLeaderboardSong(sid) THEN
       reqs' = [reqs EXCEPT ![r] = Done("vote", 403, sid, NULL)]
     ELSE
       /\ cookie_id = Empty => \E k \in 1..MaxUuid : UuidFree(k)
       /\ reqs' = [reqs EXCEPT ![r] =
            [Idle EXCEPT !.op = "vote", !.pc = "lock", !.id = sid,
                         !.who = IF cookie_id = Empty THEN makeVoterId
                                 ELSE cookie_id,
                         !.ip = sha256Hex(getClientIp(ip_hdr), VOTE_SALT),
                         !.val = rating]]
  /\ UNCHANGED <<ADMIN_TOKEN, now, settings, submissions, scores, votes,
                 vote_ip_locks, sessions>>

VoteDone(q, code) ==
  [q EXCEPT !.pc = "done", !.code = code]

\* Variants of the DELETE's WHERE clause: every lock of the submission, none
AnyLockOf(l, sid, ip_hash) == l.submission_id = sid
NoLock(l, sid, ip_hash) == FALSE

\* WHERE submission_id = ? AND ip_hash = ?
SameLock(l, sid, ip_hash) == l.submission_id = sid /\ l.ip_hash = ip_hash

\* A variant: every failed insert of the vote is a store error
AlwaysError(tag) == 500

\* The answer after a failed insert of the vote: "already_voted" when the
\* error's message names the constraint, "db_error_vote" otherwise
ConflictOrError(tag) == IF tag = "unique" THEN 409 ELSE 500

\* INSERT INTO vote_ip_locks; fail is a store error other than the
\* uniqueness violation.
VoteLock(r, fail) ==
  /\ reqs[r].op = "vote" /\ reqs[r].pc = "lock"
  /\ IF fail THEN
       /\ reqs' = [reqs EXCEPT ![r] = VoteDone(@, 500)]
       /\ UNCHANGED vote_ip_locks
     ELSE IF LockUniqueViolation(reqs[r].id, reqs[r].ip) THEN
       /\ reqs' = [reqs EXCEPT ![r] = VoteDone(@, 409)]
       /\ UNCHANGED vote_ip_locks
     ELSE
       /\ vote_ip_locks' = vote_ip_locks \cup
            {[submission_id |-> reqs[r].id, ip_hash |-> reqs[r].ip,
              created_at |-> now]}
       /\ reqs' = [reqs EXCEPT ![r] = [@ EXCEPT !.pc = "insert"]]
  /\ UNCHANGED <<ADMIN_TOKEN, now, settings, submissions, scores, votes,
                 sessions>>

\* INSERT INTO votes
VoteInsert(r, fail) ==
  /\ reqs[r].op = "vote" /\ reqs[r].pc = "insert"
  /\ IF fail THEN
       /\ reqs' = [reqs EXCEPT ![r] =
                     [@ EXCEPT !.pc = "compensate", !.tag = "other"]]
       /\ UNCHANGED votes
     ELSE IF VoteUniqueViolation(reqs[r].id, reqs[r].who) THEN
       /\ reqs' = [reqs EXCEPT ![r] =
                     [@ EXCEPT !.pc = "compensate", !.tag = "unique"]]
       /\ UNCHANGED votes
     ELSE
       /\ votes' = votes \cup
            {[submission_id |-> reqs[r].id, voter_id |-> reqs[r].who,
              rating |-> reqs[r].val, ip_hash |-> reqs[r].ip,
              created_at |-> now]}
       /\ reqs' = [reqs EXCEPT ![r] = [@ EXCEPT !.pc = "stats"]]
  /\ UNCHANGED <<ADMIN_TOKEN, now, settings, submissions, scores,
                 vote_ip_locks, sessions>>

\* DELETE FROM vote_ip_locks WHERE submission_id = ? AND ip_hash = ?, in a
\* try whose catch is empty, and the answer; fail is a store error.
\* A variant whose compensation also deletes the voter's vote for the song.
VoteCompensateVote(r, fail) ==
  /\ reqs[r].op = "vote" /\ reqs[r].pc = "compensate"
  /\ vote_ip_locks' =
       IF fail THEN vote_ip_locks
       ELSE {l \in vote_ip_locks : ~SameLock(l, reqs[r].id, reqs[r].ip)}
  /\ votes' = {v \in votes : ~(/\ v.submission_id = reqs[r].id
                                /\ v.voter_id = reqs[r].who)}
  /\ reqs' = [reqs EXCEPT ![r] = VoteDone(@, ConflictOrError(reqs[r].tag))]
  /\ UNCHANGED <<ADMIN_TOKEN, now, settings, submissions, scores, sessions>>

VoteCompensate(r, fail) ==
  /\ reqs[r].op = "vote" /\ reqs[r].pc = "compensate"
  /\ vote_ip_locks' =
       IF fail THEN vote_ip_locks
       ELSE {l \in vote_ip_locks : ~SameLock(l, reqs[r].id, reqs[r].ip)}
  /\ reqs' = [reqs EXCEPT ![r] = VoteDone(@, ConflictOrError(reqs[r].tag))]
  /\ UNCHANGED <<ADMIN_TOKEN, now, settings, submissions, scores, votes,
                 sessions>>

\* SELECT ROUND(AVG(rating), 2), COUNT(*) FROM votes, and the answer
VoteStats(r) ==
  /\ reqs[r].op = "vote" /\ reqs[r].pc = "stats"
  /\ reqs' = [reqs EXCEPT ![r] = VoteDone(@, 200)]
  /\ UNCHANGED <<ADMIN_TOKEN, now, settings, submissions, scores, votes,
                 vote_ip_locks, sessions>>

\* The request ends where it is, between two store operations (the worker is
\* terminated): the lock is inserted, the vote or the compensating delete is
\* not issued, and the client gets no answer.
VoteStop(r) ==
  /\ reqs[r].op = "vote" /\ reqs[r].pc \in {"insert", "compensate"}
  /\ reqs' = [reqs EXCEPT ![r] =
                [@ EXCEPT !.pc = "done", !.code = 0, !.tag = "stopped"]]
  /\ UNCHANGED <<ADMIN_TOKEN, now, settings, submissions, scores, votes,
                 vote_ip_locks, sessions>>

\* ---------------------------------------------------------------- admin_queue
\* The rows of the table, by id.
Rows == DOMAIN submissions

\* WHERE status IN ('NEW','IN_REVIEW')
QueueWhereScored(row) == row.status \in {"NEW", "IN_REVIEW", "SCORED"}

QueueWhere(row) == row.status \in {"NEW", "IN_REVIEW"}

\* CASE WHEN payment_status='PAID' AND paid_type='UPNEXT' THEN 0 ... ELSE 9 END
QueueRank(row) ==
  CASE row.payment_status = "PAID" /\ row.paid_type = "UPNEXT" -> 0
    [] row.payment_status = "PAID" /\ row.paid_type = "SKIP" -> 1
    [] row.payment_status = "PENDING" /\ row.paid_type = "UPNEXT" -> 2
    [] row.payment_status = "PENDING" /\ row.paid_type = "SKIP" -> 3
    [] OTHER -> 9

\* A variant: ORDER BY ..., created_at DESC
QueueOrderedNewestFirst(a, b) ==
  \/ QueueRank(a) < QueueRank(b)
  \/ QueueRank(a) = QueueRank(b) /\ a.created_at >= b.created_at

\* ORDER BY CASE ... END, created_at ASC: a may come before b
QueueOrdered(a, b) ==
  \/ QueueRank(a) < QueueRank(b)
  \/ QueueRank(a) = QueueRank(b) /\ a.created_at <= b.created_at

\* LIMIT 200
QueueLimit == 200

Limit(s, n) == SubSeq(s, 1, IF Len(s) < n THEN Len(s) ELSE n)

\* The orders the statement may return the selected rows in: every one that
\* ORDER BY allows; rows with equal keys come in either order.
QueueSorted ==
  LET sel == {i \in Rows : QueueWhere(submissions[i])}
  IN {s \in [1..Cardinality(sel) -> sel] :
        /\ \A p, q \in DOMAIN s : p # q => s[p] # s[q]
        /\ \A p, q \in DOMAIN s :
             p < q => QueueOrdered(submissions[s[p]], submissions[s[q]])}

\* The whole handler: items are the ids of the rows it returns, in order.
AdminQueue(r, hdr) ==
  /\ reqs[r].pc = "idle"
  /\ IF requireAdmin(hdr) # "ok" THEN
       reqs' = [reqs EXCEPT ![r] = Done("queue", 401, 0, NULL)]
     ELSE
       \E s \in QueueSorted :
         reqs' = [reqs EXCEPT ![r] =
                    [Done("queue", 200, 0, NULL) EXCEPT
                       !.items = Limit(s, QueueLimit)]]
  /\ UNCHANGED <<ADMIN_TOKEN, now, settings, submissions, scores, votes,
                 vote_ip_locks, sessions>>

\* ---------------------------------------------------------------- checkout (REGULAR/SUPER)
\* The row ... VALUES (..., 0, 1, 'PENDING_PAYMENT', 'PENDING', ?) makes.
LegacyRow(artist, title, track, paid_type) ==
  [SubmitRow(artist, title, track) EXCEPT
     !.paid = 1,
     !.status = "PENDING_PAYMENT",
     !.payment_status = "PENDING",
     !.paid_type = paid_type]

\* The handler up to the call of the payment processor: it inserts the row.
LegacyStart(r, method, ptype_raw, lyrics_confirmed, song, genre_ok) ==
  /\ reqs[r].pc = "idle"
  /\ LET paid_type == ToUpperCase(ptype_raw)
         artist_name == Trim(OrDefault(song.artist, Empty))
         track_title == Trim(OrDefault(song.title, Empty))
         track_url == Trim(OrDefault(song.track, Empty))
     IN
     IF method # "POST" THEN
       /\ reqs' = [reqs EXCEPT ![r] = Done("checkout", 405, 0, NULL)]
       /\ UNCHANGED submissions
     ELSE IF paid_type \notin {"REGULAR", "SUPER"} \/ lyrics_confirmed # TRUE THEN
       /\ reqs' = [reqs EXCEPT ![r] = Done("checkout", 400, 0, NULL)]
       /\ UNCHANGED submissions
     ELSE IF artist_name = Empty \/ track_title = Empty \/ ~genre_ok
               \/ track_url = Empty THEN
       /\ reqs' = [reqs EXCEPT ![r] = Done("checkout", 400, 0, NULL)]
       /\ UNCHANGED submissions
     ELSE
       /\ \E i \in Ids : ~Exists(submissions[i])
       /\ submissions' = [submissions EXCEPT ![FreshId] =
            LegacyRow(artist_name, track_title, track_url, paid_type)]
       /\ reqs' = [reqs EXCEPT ![r] =
            [Idle EXCEPT !.op = "checkout", !.pc = "stripe", !.id = FreshId,
                         !.tag = paid_type]]
  /\ UNCHANGED <<ADMIN_TOKEN, now, settings, scores, votes, vote_ip_locks,
                 sessions>>

\* fetch("https://api.stripe.com/v1/checkout/sessions"): a session that
\* carries the metadata, or a failure.
LegacyStripe(r, ok) ==
  /\ reqs[r].op = "checkout" /\ reqs[r].pc = "stripe"
  /\ IF ok THEN
       /\ Len(sessions) < MaxSessions
       /\ sessions' = Append(sessions, [submission_id |-> reqs[r].id,
                                        paid_type |-> reqs[r].tag])
       /\ reqs' = [reqs EXCEPT ![r] =
                     [@ EXCEPT !.pc = "save", !.val = Len(sessions) + 1]]
     ELSE
       /\ reqs' = [reqs EXCEPT ![r] = [@ EXCEPT !.pc = "failed"]]
       /\ UNCHANGED sessions
  /\ UNCHANGED <<ADMIN_TOKEN, now, settings, submissions, scores, votes,
                 vote_ip_locks>>

\* UPDATE submissions SET payment_status='FAILED' WHERE id=?
LegacyFailed(r) ==
  /\ reqs[r].op = "checkout" /\ reqs[r].pc = "failed"
  /\ LET id == reqs[r].id IN
     /\ submissions' =
          IF Exists(submissions[id])
          THEN [submissions EXCEPT ![id] = [@ EXCEPT !.payment_status = "FAILED"]]
          ELSE submissions
     /\ reqs' = [reqs EXCEPT ![r] = Done("checkout", 400, id, NULL)]
  /\ UNCHANGED <<ADMIN_TOKEN, now, settings, scores, votes, vote_ip_locks,
                 sessions>>

\* UPDATE submissions SET stripe_session_id=? WHERE id=?
LegacySave(r) ==
  /\ reqs[r].op = "checkout" /\ reqs[r].pc = "save"
  /\ LET id == reqs[r].id IN
     /\ submissions' =
          IF Exists(submissions[id])
          THEN [submissions EXCEPT ![id] =
                  [@ EXCEPT !.stripe_session_id = reqs[r].val]]
          ELSE submissions
     /\ reqs' = [reqs EXCEPT ![r] = Done("checkout", 200, id, NULL)]
  /\ UNCHANGED <<ADMIN_TOKEN, now, settings, scores, votes, vote_ip_locks,
                 sessions>>

\* ---------------------------------------------------------------- status
\* (await getSetting(env, key)) || fallback
SettingOr(key, fallback) ==
  IF key \in DOMAIN settings /\ settings[key] # "" THEN settings[key]
  ELSE fallback

\* Number(x), on the values the settings hold
NumberOf(x) == CASE x = "1" -> 1 [] x = "2" -> 2 [] x = "50" -> 50 [] OTHER -> NaN

\* SELECT COUNT(*) FROM submissions WHERE paid = 0 AND status IN ('NEW','IN_REVIEW')
FreeQueueCount ==
  Cardinality({i \in Rows : /\ Exists(submissions[i])
                            /\ submissions[i].paid = 0
                            /\ submissions[i].status \in {"NEW", "IN_REVIEW"}})

\* mode === "auto" ? free_queue_count < maxQueue : manualOpen
OpenFree ==
  LET mode == SettingOr("submissions_mode", "manual")
      maxQueue == NumberOf(SettingOr("submissions_max_queue", "50"))
      manualOpen == SettingOr("submissions_open", "") = "1"
  IN IF mode = "auto" THEN maxQueue # NaN /\ FreeQueueCount < maxQueue
     ELSE manualOpen

\* The whole handler: val is submissions_open_free (1 or 0), tag the mode.
StatusGet(r) ==
  /\ reqs[r].pc = "idle"
  /\ reqs' = [reqs EXCEPT ![r] =
                [Done("status", 200, 0, NULL) EXCEPT
                   !.val = IF OpenFree THEN 1 ELSE 0,
                   !.tag = SettingOr("submissions_mode", "manual")]]
  /\ UNCHANGED <<ADMIN_TOKEN, now, settings, submissions, scores, votes,
                 vote_ip_locks, sessions>>

\* ---------------------------------------------------------------- the client
\* The client takes the answer; the slot is free again.
Recycle(r) ==
  /\ reqs[r].pc = "done"
  /\ reqs' = [reqs EXCEPT ![r] = Idle]
  /\ UNCHANGED <<ADMIN_TOKEN, now, settings, submissions, scores, votes,
                 vote_ip_locks, sessions>>

\* ---------------------------------------------------------------- inputs
Secret == "s3cret"
GoodAuth == <<"Bearer ", Secret>>
AuthHeaders == {<<>>, GoodAuth, <<"Bearer ", "guess">>, <<Secret>>}
Methods == {"POST", "GET"}
\* claimed_by of a claim's body: absent ("desktop"), one space, " a"
Claimants == {NULL, <<" ">>, <<" ", "a">>}
\* sub-scores are carried doubled: 8 is 16, 7 is 14, 7.5 is 15
P40 == <<16, 16, 16, 16, 16>>
P39 == <<16, 16, 16, 16, 14>>
\* 0, 7, 8, 10 and -1, 7.5, 11, absent
PartValues == {0, 14, 16, 20, -2, 15, 22, Missing}
Song1 == [artist |-> <<"A">>, title |-> <<"a">>,
          track |-> <<"uploads/", "k1", ".", "mp3">>]

\* A notification the payment processor sends for one of its sessions.
Authentic(k) ==
  LET body == EventBody("checkout.session.completed", k,
                        sessions[k].paid_type)
  IN [sig |-> SigHeader(now, {hmacSha256Hex(WebhookSecret, now, body)}),
      body |-> body]

\* The database as created and the deployment's configuration; submissions
\* have been opened.
Init ==
  /\ ADMIN_TOKEN = Secret
  /\ now = 0
  /\ settings = [k \in {"submissions_open"} |-> "1"]
  /\ submissions = [i \in Ids |-> NoRow]
  /\ scores = [i \in Ids |-> NoRow]
  /\ votes = {}
  /\ vote_ip_locks = {}
  /\ sessions = <<>>
  /\ reqs = [r \in Slots |-> Idle]

\* ---------------------------------------------------------------- Spec
\* The claim state machine: submit, claim, score and resolve requests of
\* authorized callers, the store operations of MaxReq requests interleaved.
ClaimReq ==
  \E r \in Slots, id \in 0..MaxSubs, by \in Claimants :
    ClaimUpdate(r, GoodAuth, "POST", id, by)
ClaimAnswer == \E r \in Slots : ClaimSelect(r)
ResolveReq ==
  \E r \in Slots, id \in 0..MaxSubs, st \in {"NEW", "DONE"} :
    Resolve(r, GoodAuth, id, st)
ScoreReq ==
  \E r \in Slots, id \in 0..MaxSubs, parts \in {P40, <<16, 15, 16, 16, 16>>} :
    ScoreUpsert(r, GoodAuth, "POST", id, NULL, parts, NULL)
ScoreAnswer == \E r \in Slots : ScoreSetStatus(r)
SubmitReq ==
  \E r \in Slots :
    SubmitOpen(r, "POST", TRUE, Song1.artist, Song1.title, TRUE, Song1.track)
SubmitStep ==
  \E r \in Slots : SubmitDupeKey(r) \/ SubmitDupeName(r) \/ SubmitInsert(r)
Take == \E r \in Slots : Recycle(r)

Next ==
  \/ ClaimReq
  \/ ClaimAnswer
  \/ ResolveReq
  \/ ScoreReq
  \/ ScoreAnswer
  \/ SubmitReq
  \/ SubmitStep
  \/ Take

Spec == Init /\ [][Next]_vars

\* ---------------------------------------------------------------- SpecOwn
\* The claim state machine together with the payment relay: every handler
\* that writes the submissions table.
OwnClaimReq ==
  \E r \in Slots, id \in Ids, by \in {NULL, <<" ", "a">>} :
    ClaimUpdate(r, GoodAuth, "POST", id, by)
OwnResolveReq ==
  \E r \in Slots, id \in Ids : Resolve(r, GoodAuth, id, "DONE")
OwnScoreReq ==
  \E r \in Slots, id \in Ids :
    ScoreUpsert(r, GoodAuth, "POST", id, NULL, P40, NULL)
PaidReq ==
  \E r \in Slots, id \in 0..MaxSubs :
    PaidStart(r, "POST", TRUE, id, "upnext", Song1, TRUE)
PaidSession == \E r \in Slots, ok \in BOOLEAN : PaidStripe(r, ok)
PaidAnswer == \E r \in Slots : PaidMark(r)
WebhookReq ==
  \E r \in Slots, k \in 1..Len(sessions) :
    Webhook(r, "POST", Authentic(k).sig, Authentic(k).body)

NextOwn ==
  \/ OwnClaimReq
  \/ ClaimAnswer
  \/ OwnResolveReq
  \/ OwnScoreReq
  \/ ScoreAnswer
  \/ SubmitReq
  \/ SubmitStep
  \/ PaidReq
  \/ PaidSession
  \/ PaidAnswer
  \/ WebhookReq
  \/ Take

SpecOwn == Init /\ [][NextOwn]_vars

\* ---------------------------------------------------------------- SpecClaimRace
\* Claim requests alone, MaxReq of them at once, on every table the claim
\* state machine can have made: a submission is absent, waiting, in review,
\* scored (owned or not) or resolved.
RaceCases ==
  {<<"NEW", NULL>>, <<"SCORED", NULL>>, <<"SCORED", Empty>>,
   <<"SCORED", Desktop>>, <<"IN_REVIEW", Desktop>>, <<"IN_REVIEW", Empty>>,
   <<"DONE", NULL>>}

RaceRow(c) ==
  [status |-> c[1], claimed_by |-> c[2],
   claimed_at |-> IF c[2] = NULL THEN NullAt ELSE 0,
   created_at |-> 0, artist_name |-> Song1.artist,
   track_title |-> Song1.title, track_url |-> Song1.track, priority |-> 0,
   paid |-> 0, payment_status |-> "NONE", paid_type |-> "NULL",
   stripe_session_id |-> 0]

InitRace ==
  /\ ADMIN_TOKEN = Secret
  /\ now = 1
  /\ settings = [k \in {"submissions_open"} |-> "1"]
  /\ submissions \in [Ids -> {NoRow} \cup {RaceRow(c) : c \in RaceCases}]
  /\ scores = [i \in Ids |-> NoRow]
  /\ votes = {}
  /\ vote_ip_locks = {}
  /\ sessions = <<>>
  /\ reqs = [r \in Slots |-> Idle]

RaceClaimReq ==
  \E r \in Slots, hdr \in AuthHeaders, method \in Methods, id \in 0..MaxSubs,
     by \in Claimants :
    ClaimUpdate(r, hdr, method, id, by)

NextRace ==
  \/ RaceClaimReq
  \/ ClaimAnswer

SpecClaimRace == InitRace /\ [][NextRace]_vars

\* ---------------------------------------------------------------- SpecScore
\* Score and preview-upload requests on submission 1, in review or waiting.
\* A score body is P40 with one sub-score replaced.
ScoreBodies == {[P40 EXCEPT ![i] = v] : i \in 1..5, v \in PartValues}

InitScore ==
  /\ ADMIN_TOKEN = Secret
  /\ now = 1
  /\ settings = [k \in {"submissions_open"} |-> "1"]
  /\ \E c \in {<<"NEW", NULL>>, <<"IN_REVIEW", Desktop>>} :
       submissions = [i \in Ids |-> IF i = 1 THEN RaceRow(c) ELSE NoRow]
  /\ scores = [i \in Ids |-> NoRow]
  /\ votes = {}
  /\ vote_ip_locks = {}
  /\ sessions = <<>>
  /\ reqs = [r \in Slots |-> Idle]

WideScoreReq ==
  \E r \in Slots, sid \in 0..1, parts \in ScoreBodies :
    ScoreUpsert(r, GoodAuth, "POST", sid, NULL, parts, NULL)
PreviewReq ==
  \E r \in Slots, form_ok \in BOOLEAN, sid \in 0..1, ext \in {"mp3", "exe"} :
    UploadPreview(r, GoodAuth, "POST", form_ok, sid, ext)

NextScore ==
  \/ WideScoreReq
  \/ ScoreAnswer
  \/ PreviewReq
  \/ Take

SpecScore == InitScore /\ [][NextScore]_vars

\* ---------------------------------------------------------------- claim requests
\* What the claims below say of a submissions row, in the words of the
\* specification: it exists, waits or is scored, and has no claimant.
PreClaim(id) ==
  /\ id \in Ids
  /\ submissions[id].status \in {"NEW", "SCORED"}
  /\ submissions[id].claimed_by \in {NULL, Empty}

\* Slot r holds a claim request on id whose UPDATE changed the row.
ClaimWon(r, id) ==
  /\ reqs[r].op = "claim" /\ reqs[r].id = id
  /\ reqs[r].pc = "select" \/ (reqs[r].pc = "done" /\ reqs[r].code = 200)

\* Slot r holds a claim request on id answered with the conflict.
ClaimLost(r, id) ==
  reqs[r].op = "claim" /\ reqs[r].id = id /\ reqs[r].code = 409

\* In this step slot r takes a claim request as far as its UPDATE.
ClaimApplied(r) ==
  /\ reqs[r].pc = "idle" /\ reqs'[r].op = "claim"
  /\ reqs'[r].pc = "select" \/ reqs'[r].code = 409

\* C1: of the claim requests that race for one claimable submission exactly
\* one succeeds.  At most one request per submission has changed the row; the
\* row is then in review and owned by that request's claimant; and when
\* requests were answered with the conflict and none has succeeded, the
\* submission was not claimable (claims alone write the table here, so the
\* row is still the one the requests found).
C1_ExactlyOneClaimWins ==
  \A id \in Ids :
    LET won == {r \in Slots : ClaimWon(r, id)}
        lost == {r \in Slots : ClaimLost(r, id)}
    IN /\ Cardinality(won) <= 1
       /\ \A r \in won :
            /\ submissions[id].status = "IN_REVIEW"
            /\ submissions[id].claimed_by = reqs[r].who
       /\ (lost # {} /\ won = {}) => ~PreClaim(id)

\* Two requests raced for submission 1: one was answered, the other refused.
C1_Witness ==
  \E r, q \in Slots :
    /\ ClaimWon(r, 1) /\ reqs[r].pc = "done"
    /\ ClaimLost(q, 1)

\* C2: a claim request succeeds iff, when its UPDATE is applied, the
\* submission exists with status NEW or SCORED and no claimant; the step that
\* succeeds sets status IN_REVIEW, claimed_by (the claimant) and claimed_at,
\* and nothing else of the table.
C2_ClaimSucceedsIff ==
  [][\A r \in Slots :
       ClaimApplied(r) =>
         LET id == reqs'[r].id IN
         /\ reqs'[r].pc = "select" <=> PreClaim(id)
         /\ reqs'[r].pc = "select" =>
              /\ reqs'[r].who # NULL
              /\ submissions'[id].claimed_at # NullAt
              /\ submissions' =
                   [submissions EXCEPT ![id] =
                      [@ EXCEPT !.status = "IN_REVIEW",
                                !.claimed_by = reqs'[r].who,
                                !.claimed_at = now]]]_vars

\* A scored submission was claimed, and the request answered.
C2_Witness ==
  \E r \in Slots :
    /\ reqs[r].op = "claim" /\ reqs[r].code = 200
    /\ reqs[r].who = Desktop
    /\ submissions[reqs[r].id].status = "IN_REVIEW"
    /\ submissions[reqs[r].id].claimed_by = Desktop
    /\ submissions[reqs[r].id].claimed_at # NullAt
    /\ Exists(scores[reqs[r].id])

\* C3: a claim request whose precondition does not hold (the submission is
\* unknown, in review, resolved, or owned) is answered with the conflict, and
\* its step leaves every submission as it was.
C3_FailedClaimChangesNothing ==
  [][\A r \in Slots :
       (ClaimApplied(r) /\ ~PreClaim(reqs'[r].id)) =>
         /\ reqs'[r].pc = "done" /\ reqs'[r].code = 409
         /\ submissions' = submissions]_vars

\* A claim on a submission another claimant owns was refused.
C3_Witness ==
  \E r \in Slots :
    /\ reqs[r].op = "claim" /\ reqs[r].code = 409
    /\ submissions[reqs[r].id].status = "IN_REVIEW"
    /\ submissions[reqs[r].id].claimed_by = <<"a">>

\* C4: a submission has at most one claimant, and no step replaces a claimant
\* by another: the claimant of a submission changes only when a resolve
\* request clears it.
C4_ClaimantNeverReplaced ==
  [][\A id \in Ids :
       (/\ Exists(submissions[id])
        /\ submissions[id].claimed_by \notin {NULL, Empty}
        /\ submissions'[id].claimed_by # submissions[id].claimed_by) =>
         /\ submissions'[id].claimed_by = NULL
         /\ \E r \in Slots :
              /\ reqs[r].pc = "idle"
              /\ reqs'[r] = Done("resolve", 200, id, NULL)]_vars

\* A submission owned, scored and paid for, while a claim on it was refused.
C4_Witness ==
  \E r \in Slots :
    /\ reqs[r].op = "claim" /\ reqs[r].code = 409
    /\ submissions[reqs[r].id].status = "SCORED"
    /\ submissions[reqs[r].id].claimed_by = <<"a">>
    /\ submissions[reqs[r].id].payment_status = "PAID"

\* ---------------------------------------------------------------- score requests
\* C5: every score row has sub-scores in 0..10, total their sum, and approved
\* exactly when total >= 40 (so 39 is not approved and 40 is); and a step
\* that is not the upsert of a score request (a preview upload) changes no
\* sub-score, total or approved.
ScoreSound(s) ==
  /\ \A x \in {s.lyrics, s.delivery, s.production, s.originality, s.replay} :
       x \in 0..10
  /\ s.total = s.lyrics + s.delivery + s.production + s.originality + s.replay
  /\ s.approved \in {0, 1}
  /\ s.approved = 1 <=> s.total >= 40

Marks(s) ==
  <<s.lyrics, s.delivery, s.production, s.originality, s.replay, s.total,
    s.approved>>

C5_TotalAndApproved ==
  /\ [](\A id \in Ids : Exists(scores[id]) => ScoreSound(scores[id]))
  /\ [][\A id \in Ids :
          (/\ Exists(scores[id])
           /\ Marks(scores'[id]) # Marks(scores[id])) =>
            \E r \in Slots :
              /\ reqs[r].pc = "idle"
              /\ reqs'[r] = At("score", "setstatus", id, NULL, 0)]_vars

\* A score of total 40, approved, to which a preview was uploaded.
C5_Witness ==
  /\ Exists(scores[1])
  /\ scores[1].total = 40 /\ scores[1].approved = 1
  /\ scores[1].preview_key # NULL
  /\ \E r \in Slots : reqs[r].op = "preview" /\ reqs[r].code = 200

\* C6: a score request with a sub-score that is absent, not an integer, below
\* 0 or above 10 is answered 400, and its step changes no score row and no
\* submission.
PartInvalid(x) == x = Missing \/ x % 2 # 0 \/ x < 0 \/ x > 20

Ratings == {14, 20, 15, 22}
Cookies == {NULL, <<" ">>, <<"u">>}
Addresses == {NULL, <<"9">>}

VoteScoreReq ==
  \E r \in Slots, parts \in {P40, P39} :
    ScoreUpsert(r, GoodAuth, "POST", 1, NULL, parts, NULL)
VoteReq ==
  \E r \in Slots, body_ok \in BOOLEAN, sid \in 0..MaxSubs,
     rating \in Ratings, cookie \in Cookies, ip \in Addresses :
    VoteCheck(r, body_ok, sid, rating, cookie, ip)
VoteLockStep == \E r \in Slots, fail \in BOOLEAN : VoteLock(r, fail)
VoteInsertStep == \E r \in Slots, fail \in BOOLEAN : VoteInsert(r, fail)
VoteCompensateStep ==
  \E r \in Slots, fail \in BOOLEAN : VoteCompensate(r, fail)
VoteAnswer == \E r \in Slots : VoteStats(r)

NextVote ==
  \/ VoteScoreReq
  \/ ScoreAnswer
  \/ VoteReq
  \/ VoteLockStep
  \/ VoteInsertStep
  \/ VoteCompensateStep
  \/ VoteAnswer
  \/ Take

SpecVote == Init /\ [][NextVote]_vars

\* ---------------------------------------------------------------- vote requests
\* The submission has a score row that is approved.
ApprovedNow(sid) ==
  sid \in Ids /\ Exists(scores[sid]) /\ scores[sid].approved = 1

\* In this step slot r takes a vote request through its checks.
VotePassed(r) ==
  reqs[r].pc = "idle" /\ reqs'[r].op = "vote" /\ reqs'[r].pc = "lock"

\* In this step slot r's vote request is refused by its checks.
VoteRefused(r) ==
  reqs[r].pc = "idle" /\ reqs'[r].op = "vote" /\ reqs'[r].pc = "done"

\* A vote request in slot r has written, or is about to write, for the pair.
Voting(r) == reqs[r].op = "vote" /\ reqs[r].pc \in {"lock", "insert"}

\* C7 (as amended): a vote request is accepted only if the submission has
\* an approved score when the request asks; a request for a submission that
\* has none is refused (403, or 400 when it is malformed) whatever its
\* rating, and records neither a vote nor a lock; votes and locks are
\* written by requests that passed that check, and by no other.
C7_VoteOnlyIfApproved ==
  [][/\ \A r \in Slots :
          (reqs[r].pc = "idle" /\ reqs'[r].op = "vote") =>
            /\ VotePassed(r) \/ VoteRefused(r)
            /\ VotePassed(r) => ApprovedNow(reqs'[r].id)
            /\ VoteRefused(r) =>
                 /\ reqs'[r].code \in {400, 403}
                 /\ reqs'[r].code = 403 => ~ApprovedNow(reqs'[r].id)
                 /\ votes' = votes /\ vote_ip_locks' = vote_ip_locks
     /\ (votes' # votes \/ ~(vote_ip_locks' \subseteq vote_ip_locks)) =>
          \E r \in Slots : Voting(r) /\ reqs'[r].pc # reqs[r].pc]_vars

\* A vote for submission 1, scored 39 after it had been voted for, was
\* refused.
C7_Witness ==
  \E r \in Slots :
    /\ reqs[r].op = "vote" /\ reqs[r].code = 403 /\ reqs[r].id = 1
    /\ Exists(scores[1]) /\ scores[1].total = 39
    /\ votes # {}

\* C7 as stated: every vote request for a submission with an approved score
\* is accepted (a request keeps its address hash once it has passed the
\* eligibility check).
C7_AcceptedIffApproved ==
  \A r \in Slots :
    (reqs[r].op = "vote" /\ reqs[r].pc = "done" /\ reqs[r].ip # NULL) =>
      reqs[r].code = 200

C10_LockDeletedUnlessDeleteFails ==
  [][\A r \in Slots :
       /\ (reqs[r].op = "vote" /\ reqs[r].pc = "insert") =>
            reqs'[r].pc \in {"insert", "compensate", "stats"}
       /\ (reqs[r].op = "vote" /\ reqs[r].pc = "compensate"
             /\ reqs'[r].pc # "compensate") =>
            /\ reqs'[r].pc = "done" /\ reqs'[r].code \in {409, 500}
            /\ votes' = votes
            /\ VoteCompensate(r, FALSE) =>
                 \A l \in vote_ip_locks' :
                   ~(l.submission_id = reqs[r].id /\ l.ip_hash = reqs[r].ip)
            /\ VoteCompensate(r, TRUE) => vote_ip_locks' = vote_ip_locks
       /\ (/\ reqs[r].op = "vote" /\ reqs[r].pc = "lock"
           /\ \A l \in vote_ip_locks :
                ~(l.submission_id = reqs[r].id /\ l.ip_hash = reqs[r].ip)
           /\ VoteLock(r, FALSE)) =>
            /\ reqs'[r].pc = "insert"
            /\ \E l \in vote_ip_locks' :
                 l.submission_id = reqs[r].id /\ l.ip_hash = reqs[r].ip]_vars

\* A request whose insert of the vote failed has answered, and the vote of
\* another voter from the same address is recorded.
C10_Witness ==
  \E r \in Slots, v \in votes :
    /\ reqs[r].op = "vote" /\ reqs[r].pc = "done"
    /\ reqs[r].tag \in {"unique", "other"}
    /\ v.submission_id = reqs[r].id /\ v.ip_hash = reqs[r].ip
    /\ v.voter_id # reqs[r].who

\* C10 as stated: whenever such a request answers, its lock is gone.
C10_LockAlwaysDeleted ==
  [][\A r \in Slots :
       (/\ reqs[r].op = "vote" /\ reqs[r].pc = "compensate"
        /\ reqs'[r].pc = "done") =>
         \A l \in vote_ip_locks' :
           ~(l.submission_id = reqs[r].id /\ l.ip_hash = reqs[r].ip)]_vars

\* ---------------------------------------------------------------- SpecVoteStop
\* The vote requests of SpecVote, any of which may end between its store
\* operations.
VoteStopStep == \E r \in Slots : VoteStop(r)

NextVoteStop ==
  \/ VoteScoreReq
  \/ ScoreAnswer
  \/ VoteReq
  \/ VoteLockStep
  \/ VoteInsertStep
  \/ VoteCompensateStep
  \/ VoteAnswer
  \/ VoteStopStep
  \/ Take

SpecVoteStop == Init /\ [][NextVoteStop]_vars

\* Lock l is orphaned: no vote is recorded for its pair and no request in
\* flight holds it.
Orphaned(l) ==
  /\ l \in vote_ip_locks
  /\ \A v \in votes :
       ~(v.submission_id = l.submission_id /\ v.ip_hash = l.ip_hash)
  /\ \A r \in Slots :
       ~(/\ reqs[r].op = "vote" /\ reqs[r].pc \in {"insert", "compensate"}
         /\ reqs[r].id = l.submission_id /\ reqs[r].ip = l.ip_hash)

SameSong(a, b) ==
  \/ /\ NormJs(a.artist_name) = NormJs(b.artist_name)
     /\ NormJs(a.track_title) = NormJs(b.track_title)
  \/ a.track_url = b.track_url

DuplicateActive(i, j) ==
  /\ i # j
  /\ Exists(submissions[i]) /\ Exists(submissions[j])
  /\ Active(submissions[i]) /\ Active(submissions[j])
  /\ SameSong(submissions[i], submissions[j])

\* C12: in every reachable state, under every interleaving of submit,
\* paid-intent creation, claim, score and resolve requests, no two submissions
\* that both have status NEW or IN_REVIEW share the same normalized artist and
\* title or the same track reference.
C12_NoDuplicateActive == \A i, j \in Ids : ~DuplicateActive(i, j)

\* ---------------------------------------------------------------- SpecSubmit
\* Submit requests sent one after another, for songs that differ in the
\* artist's spelling and in the uploaded object, while judges claim and
\* resolve what is in the table.
Artists == {<<"A">>, <<"A", " ", " ", "b">>}
Tracks == {<<"uploads/", "k1", ".", "mp3">>, <<"uploads/", "k2", ".", "mp3">>}

NoSubmitRunning == \A q \in Slots : reqs[q].op # "submit" \/ reqs[q].pc = "done"

SeqSubmitReq ==
  \E r \in Slots, artist \in Artists, track \in Tracks :
    /\ NoSubmitRunning
    /\ SubmitOpen(r, "POST", TRUE, artist, <<"a">>, TRUE, track)
SeqClaimReq ==
  \E r \in Slots, id \in Ids : ClaimUpdate(r, GoodAuth, "POST", id, NULL)
SeqResolveReq ==
  \E r \in Slots, id \in Ids, st \in {"DONE", "REJECTED"} :
    Resolve(r, GoodAuth, id, st)

NextSubmit ==
  \/ SeqSubmitReq
  \/ SubmitStep
  \/ SeqClaimReq
  \/ ClaimAnswer
  \/ SeqResolveReq
  \/ Take

SpecSubmit == Init /\ [][NextSubmit]_vars

\* The song a running submit request carries, as a row would hold it.
SongOf(q) ==
  [artist_name |-> q.artist, track_title |-> q.title, track_url |-> q.track]

ActiveDuplicateOf(q) ==
  \E i \in Ids : /\ Exists(submissions[i]) /\ Active(submissions[i])
                 /\ SameSong(submissions[i], SongOf(q))

\* C13: a submit request with the same normalized artist and title, or the
\* same track reference, as a submission that is NEW or IN_REVIEW is answered
\* 409 and creates nothing; with no such submission (the earlier one has been
\* moved to a terminal status) it is answered 200 and creates a NEW submission.
C13_DuplicateSubmit ==
  [][\A r \in Slots :
       (/\ reqs[r].op = "submit"
        /\ reqs[r].pc \in {"dupeKey", "dupeName", "insert"}
        /\ reqs'[r].pc = "done") =>
         IF ActiveDuplicateOf(reqs[r])
         THEN reqs'[r].code = 409 /\ submissions' = submissions
         ELSE /\ reqs'[r].code = 200
              /\ reqs'[r].id \in Ids
              /\ ~Exists(submissions[reqs'[r].id])
              /\ submissions' = [submissions EXCEPT ![reqs'[r].id] =
                    SubmitRow(reqs[r].artist, reqs[r].title, reqs[r].track)]]_vars

\* ---------------------------------------------------------------- SpecQueue
\* The queue view, asked for on every table of QueueRows rows of the kinds
\* the handlers make: unpaid, paid intents (SKIP, UPNEXT) before and after the
\* payment confirmation, REGULAR/SUPER checkouts, claimed, scored and resolved
\* rows, created at time 0 or 1.
QueueRows == 4

\* <<status, payment_status, paid_type, priority, paid, created_at>>
QueueKinds ==
  { <<"NEW", "PAID", "UPNEXT", 2, 1, 1>>,
    <<"NEW", "PAID", "SKIP", 1, 1, 1>>,
    <<"NEW", "PAID", "SKIP", 1, 1, 0>>,
    <<"NEW", "PENDING", "UPNEXT", 2, 0, 0>>,
    <<"NEW", "PENDING", "SKIP", 1, 0, 0>>,
    <<"NEW", "NONE", "NULL", 0, 0, 0>>,
    <<"NEW", "NONE", "NULL", 0, 0, 1>>,
    <<"IN_REVIEW", "NONE", "NULL", 0, 0, 0>>,
    <<"IN_REVIEW", "PAID", "SUPER", 1, 1, 1>>,
    <<"PENDING_PAYMENT", "PENDING", "REGULAR", 0, 1, 0>>,
    <<"SCORED", "NONE", "NULL", 0, 0, 0>>,
    <<"DONE", "PAID", "UPNEXT", 2, 1, 0>> }

QueueRow(k) ==
  [status |-> k[1],
   claimed_by |-> IF k[1] = "IN_REVIEW" THEN Desktop ELSE NULL,
   claimed_at |-> IF k[1] = "IN_REVIEW" THEN 1 ELSE NullAt,
   created_at |-> k[6], artist_name |-> Song1.artist,
   track_title |-> Song1.title, track_url |-> Song1.track,
   priority |-> k[4], paid |-> k[5], payment_status |-> k[2],
   paid_type |-> k[3],
   stripe_session_id |-> IF k[2] = "NONE" THEN 0 ELSE 1]

InitQueue ==
  /\ ADMIN_TOKEN = Secret
  /\ now = 1
  /\ settings = [k \in {"submissions_open"} |-> "1"]
  /\ submissions \in [1..QueueRows -> {QueueRow(k) : k \in QueueKinds}]
  /\ scores = [i \in Ids |-> NoRow]
  /\ votes = {}
  /\ vote_ip_locks = {}
  /\ sessions = <<>>
  /\ reqs = [r \in Slots |-> Idle]

QueueReq == \E r \in Slots, hdr \in {GoodAuth, <<>>} : AdminQueue(r, hdr)

NextQueue == QueueReq \/ Take

SpecQueue == InitQueue /\ [][NextQueue]_vars

\* The answer of a queue request that was let in.
QueueAnswer(r) ==
  reqs[r].op = "queue" /\ reqs[r].pc = "done" /\ reqs[r].code = 200

\* The five tiers of the ordering: confirmed-paid upgrade, confirmed-paid
\* base, pending upgrade, pending base, unpaid.
UpgradeTags == {"SUPER", "UPNEXT"}
BaseTags == {"REGULAR", "SKIP"}
Tier(row) ==
  CASE row.payment_status = "PAID" /\ row.paid_type \in UpgradeTags -> 0
    [] row.payment_status = "PAID" /\ row.paid_type \in BaseTags -> 1
    [] row.payment_status = "PENDING" /\ row.paid_type \in UpgradeTags -> 2
    [] row.payment_status = "PENDING" /\ row.paid_type \in BaseTags -> 3
    [] OTHER -> 4

\* C14: in the queue view an entry of a better tier (confirmed-paid upgrade,
\* confirmed-paid base, pending upgrade, pending base, unpaid, in this order)
\* precedes every entry of a worse tier, and of two entries of one tier the
\* one created earlier comes first.
C14_TierOrder ==
  \A r \in Slots : QueueAnswer(r) =>
    \A p, q \in 1..Len(reqs[r].items) : p < q =>
      LET a == submissions[reqs[r].items[p]]
          b == submissions[reqs[r].items[q]]
      IN \/ Tier(a) < Tier(b)
         \/ Tier(a) = Tier(b) /\ a.created_at <= b.created_at

Unpaid(row) == Tier(row) = 4

Min(a, b) == IF a < b THEN a ELSE b

\* What the view holds: the rows that are NEW or IN_REVIEW, each once, all of
\* them up to the limit.
QueueContents(r) ==
  LET items == reqs[r].items
      actionable == {i \in Rows : submissions[i].status \in {"NEW", "IN_REVIEW"}}
  IN /\ \A p \in 1..Len(items) : items[p] \in actionable
     /\ \A p, q \in 1..Len(items) : p # q => items[p] # items[q]
     /\ Len(items) = Min(Cardinality(actionable), QueueLimit)

\* A step that answers a queue request.
QueueAnswered(r) == reqs[r].pc = "idle" /\ reqs'[r].op = "queue"

Delivered(k) ==
  \A r \in Slots :
    ~(reqs[r].op \in {"paid", "checkout"} /\ reqs[r].pc \in {"mark", "save"}
      /\ reqs[r].val = k)

\* What reaches the relay about session k: the processor's notification, the
\* same body under a signature made with another key, the notification with
\* a timestamp out of tolerance, and a signed event of another type.
Notifications(k) ==
  LET other == EventBody("payment_intent.created", k, sessions[k].paid_type)
  IN { Authentic(k),
       [sig |-> SigHeader(now, {hmacSha256Hex("guess", now, Authentic(k).body)}),
        body |-> Authentic(k).body],
       [sig |-> SigHeader(now - toleranceSec - 1,
                          {hmacSha256Hex(WebhookSecret, now - toleranceSec - 1,
                                         Authentic(k).body)}),
        body |-> Authentic(k).body],
       [sig |-> SigHeader(now, {hmacSha256Hex(WebhookSecret, now, other)}),
        body |-> other] }

CheckoutReq ==
  \E r \in Slots, ptype \in {"regular", "super"} :
    LegacyStart(r, "POST", ptype, TRUE, Song1, TRUE)
CheckoutSession == \E r \in Slots, ok \in BOOLEAN : LegacyStripe(r, ok)
CheckoutAnswer == \E r \in Slots : LegacyFailed(r) \/ LegacySave(r)
IntentReq ==
  \E r \in Slots, ptype \in {"skip", "upnext"} :
    PaidStart(r, "POST", TRUE, 0, ptype, Song1, TRUE)
NotifyReq ==
  \E r \in Slots, k \in 1..Len(sessions) :
    /\ Delivered(k)
    /\ \E n \in Notifications(k) : Webhook(r, "POST", n.sig, n.body)
JudgeClaimReq ==
  \E r \in Slots, id \in Ids : ClaimUpdate(r, GoodAuth, "POST", id, NULL)

NextCheckout ==
  \/ CheckoutReq
  \/ CheckoutSession
  \/ CheckoutAnswer
  \/ IntentReq
  \/ PaidSession
  \/ PaidAnswer
  \/ NotifyReq
  \/ JudgeClaimReq
  \/ ClaimAnswer
  \/ OwnScoreReq
  \/ ScoreAnswer
  \/ OwnResolveReq
  \/ Take

SpecCheckout == Init /\ [][NextCheckout]_vars

\* A step in which slot r answers 200 to a checkout-completed notification
\* about session k.
Relayed(r, k) ==
  /\ reqs[r].pc = "idle"
  /\ reqs'[r].op = "webhook" /\ reqs'[r].code = 200 /\ reqs'[r].id = k
  /\ k # 0

\* The answer to a checkout-completed notification about session k.
RelayAnswer(q, k) ==
  /\ reqs[q].op = "webhook" /\ reqs[q].pc = "done" /\ reqs[q].code = 200
  /\ reqs[q].id = k /\ k # 0

\* C17: when the notification about a session has been processed, processing
\* it again, at once or after other operations, changes no submission: the
\* final state is that of processing it once.
C17_RedeliveryChangesNothing ==
  [][\A r, q \in Slots, k \in 1..MaxSessions :
       (r # q /\ RelayAnswer(q, k) /\ Relayed(r, k)) =>
         submissions' = submissions]_vars

\* Two answers to the notification about one session, whose submission is
\* paid and has meanwhile been claimed.
C17_Witness ==
  \E r, q \in Slots, k \in 1..MaxSessions, i \in Ids :
    /\ r # q /\ RelayAnswer(q, k) /\ RelayAnswer(r, k)
    /\ Exists(submissions[i]) /\ submissions[i].stripe_session_id = k
    /\ submissions[i].payment_status = "PAID"
    /\ submissions[i].status = "IN_REVIEW"

\* The rank of a tier tag: an upgrade tier ranks above a base tier.
TierRank(tag) == IF tag \in UpgradeTags THEN 2 ELSE 1

\* C18: when an authentic checkout-completed notification is processed, the
\* submission whose stored session reference is the notified session gets
\* payment_status PAID, paid 1 and as priority the rank of the notified tag;
\* its paid_type becomes the notified tag if it had none and is kept
\* otherwise; its other fields stay.
C18_PaidFields ==
  [][\A r \in Slots, k \in 1..MaxSessions : Relayed(r, k) =>
       \A i \in Ids :
         (Exists(submissions[i]) /\ submissions[i].stripe_session_id = k) =>
           submissions'[i] =
             [submissions[i] EXCEPT
                !.payment_status = "PAID",
                !.paid = 1,
                !.priority = TierRank(sessions[k].paid_type),
                !.paid_type = IF @ = "NULL" THEN sessions[k].paid_type
                              ELSE @]]_vars

\* A step in which slot r answers a notification, of any kind.
Notified(r) == reqs[r].pc = "idle" /\ reqs'[r].op = "webhook"

\* C19: processing a payment notification changes the status, claimed_by and
\* claimed_at of no submission, and changes nothing at all in a submission
\* whose stored session reference is not the notified session.
C19_RelayFrame ==
  [][\A r \in Slots : Notified(r) =>
       \A i \in Ids :
         IF ~Exists(submissions[i]) THEN submissions'[i] = submissions[i]
         ELSE /\ submissions'[i].status = submissions[i].status
              /\ submissions'[i].claimed_by = submissions[i].claimed_by
              /\ submissions'[i].claimed_at = submissions[i].claimed_at
              /\ (\/ reqs'[r].code # 200
                  \/ reqs'[r].id = 0
                  \/ submissions[i].stripe_session_id # reqs'[r].id) =>
                   submissions'[i] = submissions[i]]_vars

\* A processed notification: its submission is paid and still claimed, and
\* the other submission, waiting for its payment, is as it was.
C19_Witness ==
  \E r \in Slots, k \in 1..MaxSessions, i, j \in Ids :
    /\ RelayAnswer(r, k)
    /\ Exists(submissions[i]) /\ submissions[i].stripe_session_id = k
    /\ submissions[i].payment_status = "PAID"
    /\ submissions[i].status = "IN_REVIEW"
    /\ submissions[i].claimed_by = Desktop
    /\ i # j /\ Exists(submissions[j])
    /\ submissions[j].stripe_session_id # k
    /\ submissions[j].payment_status = "PENDING"

\* A row made by the REGULAR/SUPER checkout: a paid intent in PENDING_PAYMENT.
PendingIntent(row) == Exists(row) /\ row.paid_type \in {"REGULAR", "SUPER"}

\* C20: a submission created as a paid intent in PENDING_PAYMENT is never NEW
\* and never in the queue view before its payment confirmation is processed,
\* and becomes NEW when it is processed.
C20_PendingPaymentToNew ==
  /\ [](\A i \in Ids :
          (PendingIntent(submissions[i])
           /\ submissions[i].payment_status # "PAID") =>
            /\ submissions[i].status # "NEW"
            /\ ~QueueWhere(submissions[i]))
  /\ [][\A r \in Slots, k \in 1..MaxSessions : Relayed(r, k) =>
          \A i \in Ids :
            (/\ PendingIntent(submissions[i])
             /\ submissions[i].stripe_session_id = k
             /\ submissions[i].status = "PENDING_PAYMENT") =>
              submissions'[i].status = "NEW"]_vars

\* ---------------------------------------------------------------- SpecRelay
\* The payment relay alone, on every table of rows that wait for a payment:
\* each row is absent, unpaid, a paid intent (SKIP, UPNEXT) or a REGULAR/SUPER
\* checkout.  The processor has a session for every id; a row holds the
\* reference of its session, or none when its checkout did not save it.

\* <<paid_type, saved>>
RelayKinds ==
  { <<"SKIP", TRUE>>, <<"UPNEXT", TRUE>>, <<"REGULAR", TRUE>>,
    <<"SUPER", TRUE>>, <<"SKIP", FALSE>> }

RelayRow(i, k) ==
  LET row == IF k[1] \in {"SKIP", "UPNEXT"}
             THEN PaidIntentRow(Song1.artist, Song1.title, Song1.track, k[1])
             ELSE LegacyRow(Song1.artist, Song1.title, Song1.track, k[1])
  IN [row EXCEPT !.created_at = 0,
                 !.stripe_session_id = IF k[2] THEN i ELSE 0]

InitRelay ==
  /\ ADMIN_TOKEN = Secret
  /\ now = 1000
  /\ settings = [k \in {"submissions_open"} |-> "1"]
  /\ \E kinds \in [Ids -> RelayKinds] :
       /\ submissions = [i \in Ids |-> RelayRow(i, kinds[i])]
       /\ sessions = [i \in Ids |->
                        [submission_id |-> i, paid_type |-> kinds[i][1]]]
  /\ scores = [i \in Ids |-> NoRow]
  /\ votes = {}
  /\ vote_ip_locks = {}
  /\ reqs = [r \in Slots |-> Idle]

\* The signature header the processor makes for a body at time t.
Signed(t, body) == SigHeader(t, {hmacSha256Hex(WebhookSecret, t, body)})

\* Authentic notifications that the relay has nothing to do with: an event of
\* another type, a body that is not JSON, a checkout event without a session
\* id.
OtherEvent(k) == EventBody("payment_intent.created", k, sessions[k].paid_type)
NoIdEvent(k) == EventBody("checkout.session.completed", 0, sessions[k].paid_type)
Malformed(k) == {OtherEvent(k), Garbage, NoIdEvent(k)}

\* Signature headers for a body that the processor did not make, or made too
\* long ago: none, one without signatures, one made with another key, one
\* made for another body, one made for another time, and authentic ones at
\* and beyond the tolerance.
Times == {now, now - toleranceSec, now + toleranceSec,
          now - toleranceSec - 1, now + toleranceSec + 1}
Headers(body) ==
  {NoSig, SigHeader(now, {}),
   SigHeader(now, {hmacSha256Hex("guess", now, body)}),
   SigHeader(now, {hmacSha256Hex(WebhookSecret, now, Garbage)}),
   SigHeader(now, {hmacSha256Hex(WebhookSecret, now - toleranceSec - 1, body)}),
   SigHeader(now, {hmacSha256Hex("guess", now, body),
                   hmacSha256Hex(WebhookSecret, now, body)})}
    \cup {Signed(t, body) : t \in Times}

RelayReq ==
  \E r \in Slots, k \in 1..Len(sessions), method \in Methods :
    \E body \in {Authentic(k).body} \cup Malformed(k) :
      \E sig \in Headers(body) : Webhook(r, method, sig, body)

NextRelay == RelayReq \/ Take

SpecRelay == InitRelay /\ [][NextRelay]_vars

\* The session of notification k is on no row.
Unmatched(k) ==
  \A i \in Ids : ~(Exists(submissions[i]) /\ submissions[i].stripe_session_id = k)

\* C21: an authentic notification whose session reference matches no
\* submission, or whose payload is not a checkout event, is not parsable or
\* has no session id, changes no state and is answered with the accepted
\* acknowledgment (200), never with an error.
C21_IgnoredAndAcknowledged ==
  [][\A r \in Slots : Notified(r) =>
       \A k \in 1..Len(sessions) :
         \A body \in Malformed(k) \cup
                     (IF Unmatched(k) THEN {Authentic(k).body} ELSE {}) :
           Webhook(r, "POST", Signed(now, body), body) =>
             /\ reqs'[r].code = 200
             /\ submissions' = submissions]_vars

\* A supplied signature is the HMAC of "{t}.{body}" under the shared secret,
\* and t is within 300 seconds of the receiver's clock.
Verified(sig, body) ==
  /\ sig.present
  /\ \E v \in sig.v1 : v = hmacSha256Hex(WebhookSecret, sig.t, body)
  /\ now - sig.t <= 300 /\ sig.t - now <= 300

\* C22: a payment notification is processed only if one of its signatures is
\* the HMAC of "{timestamp}.{raw body}" under the shared secret and the
\* timestamp is within 300 seconds of the receiver's clock; without a
\* signature header, without a matching signature or with a stale timestamp
\* it is rejected (400) and changes no submission.
C22_OnlyVerifiedProcessed ==
  [][\A r \in Slots : Notified(r) =>
       \A k \in 1..Len(sessions) :
         \A body \in {Authentic(k).body} \cup Malformed(k) :
           \A sig \in Headers(body) :
             (Webhook(r, "POST", sig, body) /\ ~Verified(sig, body)) =>
               /\ reqs'[r].code = 400
               /\ submissions' = submissions]_vars

\* A notification has been processed, its submission is paid; another one
\* has been rejected, and the other submission still waits for its payment.
C22_Witness ==
  \E r, q \in Slots, k \in 1..Len(sessions) :
    /\ RelayAnswer(r, k)
    /\ submissions[k].stripe_session_id = k
    /\ submissions[k].payment_status = "PAID"
    /\ reqs[q].op = "webhook" /\ reqs[q].pc = "done" /\ reqs[q].code = 400
    /\ \A i \in Ids : i # k => submissions[i].payment_status = "PENDING"

\* A row whose payment has been confirmed by the relay.
Confirmed(row) == Exists(row) /\ row.payment_status = "PAID"

\* C23: the priority a payment confirmation writes ranks the tiers: a
\* confirmed upgrade-tier row (SUPER, UPNEXT) has a priority strictly greater
\* than a confirmed base-tier row (REGULAR, SKIP), and both are greater than
\* the priority 0 of an unpaid submission.
C23_UpgradeOutranksBase ==
  \A i, j \in Ids :
    /\ Confirmed(submissions[i]) => submissions[i].priority > 0
    /\ (/\ Confirmed(submissions[i]) /\ Confirmed(submissions[j])
        /\ submissions[i].paid_type \in UpgradeTags
        /\ submissions[j].paid_type \in BaseTags) =>
         submissions[i].priority > submissions[j].priority

\* ---------------------------------------------------------------- SpecGate
\* Admission: the settings table as the deployment has filled it (the open
\* flag alone, or with an admission mode and a capacity of one), submit
\* requests sent one after another, paid intents, the toggle and the status
\* view, while a judge resolves.
GateSettings ==
  {[k \in {"submissions_open"} |-> o] : o \in {"1", "0"}}
    \cup {[submissions_open |-> o, submissions_mode |-> m,
           submissions_max_queue |-> "1"] :
            o \in {"1", "0"}, m \in {"auto", "manual"}}

InitGate ==
  /\ ADMIN_TOKEN = Secret
  /\ now = 0
  /\ settings \in GateSettings
  /\ submissions = [i \in Ids |-> NoRow]
  /\ scores = [i \in Ids |-> NoRow]
  /\ votes = {}
  /\ vote_ip_locks = {}
  /\ sessions = <<>>
  /\ reqs = [r \in Slots |-> Idle]

GateToggleReq ==
  \E r \in Slots, hdr \in {GoodAuth, <<"Bearer ", "guess">>},
     method \in Methods, open_in \in BOOLEAN :
    AdminToggle(r, hdr, method, open_in)
StatusReq == \E r \in Slots : StatusGet(r)
GateResolveReq == \E r \in Slots, id \in Ids : Resolve(r, GoodAuth, id, "DONE")

NextGate ==
  \/ SeqSubmitReq
  \/ SubmitStep
  \/ IntentReq
  \/ PaidSession
  \/ PaidAnswer
  \/ GateToggleReq
  \/ StatusReq
  \/ GateResolveReq
  \/ Take

SpecGate == InitGate /\ [][NextGate]_vars

Automatic == SettingOr("submissions_mode", "manual") = "auto"
Capacity == NumberOf(SettingOr("submissions_max_queue", "50"))

\* The active unpaid submissions that submit requests made.  Between the
\* moment a submit request is let in and its insert this number can only go
\* down: no other submit request runs, and a resolve takes a row out.
SubmittedActive ==
  Cardinality({i \in Ids : /\ Exists(submissions[i])
                           /\ submissions[i].paid = 0
                           /\ submissions[i].payment_status = "NONE"
                           /\ submissions[i].status \in {"NEW", "IN_REVIEW"}})

\* C24: in automatic mode no submit request creates a submission while the
\* number of active unpaid submissions (NEW or IN_REVIEW, paid = 0) is at or
\* above the capacity setting, so submit requests never take that number
\* above the capacity.
C24_CapacityGate ==
  [][\A r \in Slots :
       (/\ reqs[r].op = "submit" /\ reqs[r].pc = "insert"
        /\ reqs'[r].pc = "done"
        /\ Automatic /\ SubmittedActive >= Capacity) =>
         /\ reqs'[r].code # 200
         /\ submissions' = submissions]_vars


\* A submit request arrives at slot r in this step.
Submitted(r) == reqs[r].pc = "idle" /\ reqs'[r].op = "submit"
\* A toggle request arrives at slot r in this step.
Toggled(r) == reqs[r].pc = "idle" /\ reqs'[r].op = "toggle"

\* C25: a POST submit request that arrives while the stored submissions_open
\* setting is not "1" is answered 403 at once and creates nothing, and one that
\* arrives while it is "1" is not answered 403, whatever earlier requests saw;
\* the settings change only in the step of a POST toggle request carrying the
\* administrator's credential, answered 200, and then hold what that request
\* wrote ("1" for open = true, "0" otherwise).
C25_OpenGate ==
  [][/\ \A r \in Slots :
          Submitted(r) =>
            IF settings["submissions_open"] # "1"
            THEN /\ reqs'[r].pc = "done" /\ reqs'[r].code = 403
                 /\ submissions' = submissions
            ELSE reqs'[r].code # 403
     /\ settings' # settings =>
          \E r \in Slots :
            /\ Toggled(r) /\ reqs'[r].code = 200
            /\ \E open_in \in BOOLEAN :
                 /\ AdminToggle(r, GoodAuth, "POST", open_in)
                 /\ settings' = [settings EXCEPT !["submissions_open"] =
                                   IF open_in THEN "1" ELSE "0"]]_vars

\* A submission was made while submissions were open, a toggle request was
\* answered 200 and the setting is now "0", and a submit request was answered
\* 403.
C25_Witness ==
  /\ settings["submissions_open"] = "0"
  /\ \E i \in Ids : Exists(submissions[i]) /\ submissions[i].payment_status = "NONE"
  /\ \E r, q \in Slots :
       /\ reqs[r].op = "submit" /\ reqs[r].pc = "done" /\ reqs[r].code = 403
       /\ reqs[q].op = "toggle" /\ reqs[q].pc = "done" /\ reqs[q].code = 200


\* A paid checkout request arrives at slot r in this step.
PaidArrived(r) == reqs[r].pc = "idle" /\ reqs'[r].op = "paid"

\* C26: a well-formed paid-intent request (POST, tier skip or upnext, a
\* complete song, no submission_id) creates its submission and goes on to the
\* payment processor in every state: with submissions closed, in automatic
\* mode, and with any number of active submissions; a paid request is answered
\* only 200, or 500 when the processor fails.
C26_PaidNeverGated ==
  /\ [](\A r \in Slots :
          (reqs[r].op = "paid" /\ reqs[r].pc = "done") => reqs[r].code \in {200, 500})
  /\ [][\A r \in Slots :
          PaidArrived(r) =>
            /\ reqs'[r].pc = "stripe"
            /\ ~Exists(submissions[reqs'[r].id])
            /\ Exists(submissions'[reqs'[r].id])
            /\ submissions'[reqs'[r].id].payment_status = "PENDING"]_vars

\* A paid intent is on its way to the processor as submission 2 while
\* submissions are closed, the mode is automatic, and the free queue, with the
\* active unpaid submission 1 in it, is over the capacity.
C26_Witness ==
  /\ settings["submissions_open"] = "0"
  /\ Automatic
  /\ FreeQueueCount > Capacity
  /\ Exists(submissions[1]) /\ submissions[1].payment_status = "NONE"
  /\ submissions[1].status = "NEW"
  /\ \E r \in Slots : reqs[r].op = "paid" /\ reqs[r].pc = "stripe" /\ reqs[r].id = 2


\* ---------------------------------------------------------------- SpecResolve
\* Resolve requests with every kind of outcome word, on tables that hold rows
\* of every status and owner the handlers can leave behind.
Judge2 == <<"j", "2">>

ResolveCases ==
  {<<"NEW", NULL>>, <<"IN_REVIEW", Desktop>>, <<"IN_REVIEW", Judge2>>,
   <<"SCORED", NULL>>, <<"SCORED", Desktop>>, <<"DONE", NULL>>,
   <<"REJECTED", NULL>>, <<"SKIPPED", NULL>>, <<"ARCHIVED", NULL>>}

ResolveRows ==
  {NoRow, LegacyRow(Song1.artist, Song1.title, Song1.track, "REGULAR")}
    \cup {RaceRow(c) : c \in ResolveCases}

ResolveWords ==
  ResolveAllowed \cup {"done", " done ", "NEW", "IN_REVIEW", "SCORED", "", " "}

InitResolve ==
  /\ ADMIN_TOKEN = Secret
  /\ now = 0
  /\ settings = [k \in {"submissions_open"} |-> "1"]
  /\ submissions \in [Ids -> ResolveRows]
  /\ scores = [i \in Ids |-> NoRow]
  /\ votes = {}
  /\ vote_ip_locks = {}
  /\ sessions = <<>>
  /\ reqs = [r \in Slots |-> Idle]

ResolveAnyReq ==
  \E r \in Slots, id \in 0..MaxSubs, w \in ResolveWords :
    Resolve(r, GoodAuth, id, w)
ViewReq == \E r \in Slots : AdminQueue(r, GoodAuth)

NextResolve ==
  \/ ResolveAnyReq
  \/ JudgeClaimReq
  \/ ClaimAnswer
  \/ ViewReq
  \/ Take

SpecResolve == InitResolve /\ [][NextResolve]_vars

\* A resolve request arrives at slot r in this step.
Resolved(r) == reqs[r].pc = "idle" /\ reqs'[r].op = "resolve"

\* What a resolve request with submission id and outcome word w must do, the
\* accepted outcomes being those for which ok holds.
ResolveEffect(r, id, w, ok) ==
  IF ok /\ id # 0 THEN
    /\ reqs'[r].code = 200
    /\ \A i \in Ids :
         IF i = id /\ Exists(submissions[i])
         THEN /\ submissions'[i] =
                   [submissions[i] EXCEPT !.status = ResolveStatus(w),
                                          !.claimed_by = NULL,
                                          !.claimed_at = NullAt]
              /\ ~QueueWhere(submissions'[i])
         ELSE submissions'[i] = submissions[i]
  ELSE
    /\ reqs'[r].code = 400
    /\ submissions' = submissions

\* C27 as stated: an authorized resolve with outcome REJECTED, SKIPPED, DONE or
\* ARCHIVED sets the status to the outcome and clears claimed_by and
\* claimed_at whatever the status and the owner, so that the submission is not
\* in the queue view; with any other outcome value it is answered 400 and
\* changes nothing.
C27_Original ==
  [][\A r \in Slots :
       Resolved(r) =>
         \A id \in 0..MaxSubs, w \in ResolveWords :
           Resolve(r, GoodAuth, id, w) =>
             ResolveEffect(r, id, w, w \in ResolveAllowed)]_vars

\* C27, amended: the outcome is taken after trimming and upper-casing.  An
\* authorized resolve whose outcome is then REJECTED, SKIPPED, DONE or
\* ARCHIVED, for an existing submission, sets the status to it and clears
\* claimed_by and claimed_at whatever the status and the owner, so that the
\* submission is not in the queue view, and touches no other submission; with
\* any other outcome, or with no id, it is answered 400 and changes nothing.
C27_ResolveOutcome ==
  [][\A r \in Slots :
       Resolved(r) =>
         \A id \in 0..MaxSubs, w \in ResolveWords :
           Resolve(r, GoodAuth, id, w) =>
             ResolveEffect(r, id, w, ResolveStatus(w) \in ResolveAllowed)]_vars

\* Submission 1 was claimed by the desktop judge and then resolved: the claim
\* and the resolve were both answered 200, and the submission is ARCHIVED with
\* no owner and no claim time.
C27_Witness ==
  \E r, q \in Slots :
    /\ reqs[q].op = "claim" /\ reqs[q].code = 200 /\ reqs[q].id = 1
    /\ reqs[q].pc = "done"
    /\ reqs[r].op = "resolve" /\ reqs[r].code = 200 /\ reqs[r].id = 1
    /\ submissions[1].status = "ARCHIVED"
    /\ submissions[1].claimed_by = NULL /\ submissions[1].claimed_at = NullAt


\* ---------------------------------------------------------------- SpecTerminal
\* Every kind of request on tables whose submissions have been resolved.
Terminal == {"REJECTED", "SKIPPED", "DONE", "ARCHIVED"}

InitTerminal ==
  /\ ADMIN_TOKEN = Secret
  /\ now = 0
  /\ settings = [k \in {"submissions_open"} |-> "1"]
  /\ submissions \in [Ids -> {NoRow} \cup {RaceRow(<<t, NULL>>) : t \in Terminal}]
  /\ scores = [i \in Ids |-> NoRow]
  /\ votes = {}
  /\ vote_ip_locks = {}
  /\ sessions = <<>>
  /\ reqs = [r \in Slots |-> Idle]

TermScoreReq ==
  \E r \in Slots, id \in Ids : ScoreUpsert(r, GoodAuth, "POST", id, NULL, P40, NULL)
TermResolveReq ==
  \E r \in Slots, id \in Ids, w \in {"DONE", "ARCHIVED", "NEW"} :
    Resolve(r, GoodAuth, id, w)
TermPaidReq ==
  \E r \in Slots, id \in Ids : PaidStart(r, "POST", TRUE, id, "skip", Song1, TRUE)

NextTerminal ==
  \/ JudgeClaimReq
  \/ ClaimAnswer
  \/ TermScoreReq
  \/ ScoreAnswer
  \/ TermResolveReq
  \/ SubmitReq
  \/ SubmitStep
  \/ TermPaidReq
  \/ PaidSession
  \/ PaidAnswer
  \/ NotifyReq
  \/ ViewReq
  \/ Take

SpecTerminal == InitTerminal /\ [][NextTerminal]_vars

\* C28 as stated: once a submission is REJECTED, SKIPPED, DONE or ARCHIVED, no
\* claim, score, resolve, submit or payment step changes its status again (so
\* it never becomes claimable and never comes back into the queue view).
C28_Original ==
  [][\A i \in Ids :
       submissions[i].status \in Terminal =>
         submissions'[i].status = submissions[i].status]_vars


\* The score request in slot r sets the status of submission i in this step.
ScoreSets(r, i) ==
  /\ reqs[r].op = "score" /\ reqs[r].pc = "setstatus" /\ reqs[r].id = i
  /\ reqs'[r].pc = "done"

\* C28, amended: a submission that is REJECTED, SKIPPED, DONE or ARCHIVED is
\* not in the queue view and cannot be claimed, and its status changes only
\* when a score request sets it to SCORED or an accepted resolve request sets
\* it to another of the four; claim, submit and payment steps never change it.
C28_TerminalUntilScoredOrResolved ==
  /\ [](\A i \in Ids :
          submissions[i].status \in Terminal =>
            ~QueueWhere(submissions[i]) /\ ClaimChanges(i) = 0)
  /\ [][\A i \in Ids :
          (/\ submissions[i].status \in Terminal
           /\ submissions'[i].status # submissions[i].status) =>
            \/ \E r \in Slots :
                 ScoreSets(r, i) /\ submissions'[i].status = "SCORED"
            \/ \E r \in Slots :
                 /\ Resolved(r) /\ reqs'[r].code = 200 /\ reqs'[r].id = i
                 /\ submissions'[i].status \in Terminal]_vars

\* Submission 1 is REJECTED, which no request of this specification sets, so
\* it has been REJECTED throughout; its payment was confirmed by the relay and
\* a claim of it was answered 409.
C28_Witness ==
  /\ submissions[1].status = "REJECTED"
  /\ submissions[1].payment_status = "PAID"
  /\ \E r \in Slots : reqs[r].op = "claim" /\ reqs[r].code = 409 /\ reqs[r].id = 1


\* ---------------------------------------------------------------- SpecAdmin
\* The administrative requests with every kind of Authorization header, in a
\* deployment with the secret configured and in one without it.
AdminHeaders == AuthHeaders \cup {<<"bearer ", Secret>>, <<"Bearer ", "">>}
AdminMethods == Methods

InitAdmin ==
  /\ ADMIN_TOKEN \in {Secret, ""}
  /\ now = 0
  /\ settings = [k \in {"submissions_open"} |-> "1"]
  /\ submissions \in [Ids -> {NoRow, RaceRow(<<"NEW", NULL>>),
                              RaceRow(<<"IN_REVIEW", Desktop>>)}]
  /\ scores = [i \in Ids |-> NoRow]
  /\ votes = {}
  /\ vote_ip_locks = {}
  /\ sessions = <<>>
  /\ reqs = [r \in Slots |-> Idle]

AdminClaimReq ==
  \E r \in Slots, hdr \in AdminHeaders, method \in AdminMethods, id \in Ids :
    ClaimUpdate(r, hdr, method, id, NULL)
AdminScoreReq ==
  \E r \in Slots, hdr \in AdminHeaders, method \in AdminMethods, id \in Ids :
    ScoreUpsert(r, hdr, method, id, NULL, P40, NULL)
AdminResolveReq ==
  \E r \in Slots, hdr \in AdminHeaders, id \in Ids, w \in {"DONE", "NEW"} :
    Resolve(r, hdr, id, w)
AdminViewReq == \E r \in Slots, hdr \in AdminHeaders : AdminQueue(r, hdr)
AdminToggleReq ==
  \E r \in Slots, hdr \in AdminHeaders, method \in AdminMethods,
     open_in \in BOOLEAN :
    AdminToggle(r, hdr, method, open_in)
AdminPreviewReq ==
  \E r \in Slots, hdr \in AdminHeaders, method \in AdminMethods, id \in Ids :
    UploadPreview(r, hdr, method, TRUE, id, "mp3")

NextAdmin ==
  \/ AdminClaimReq
  \/ ClaimAnswer
  \/ AdminScoreReq
  \/ ScoreAnswer
  \/ AdminResolveReq
  \/ AdminViewReq
  \/ AdminToggleReq
  \/ AdminPreviewReq
  \/ Take

SpecAdmin == InitAdmin /\ [][NextAdmin]_vars


\* The header carries no bearer credential, or one that is not the configured
\* secret, or no secret is configured.
Denied(hdr) ==
  \/ ADMIN_TOKEN = ""
  \/ Len(hdr) # 2
  \/ hdr[1] # "Bearer "
  \/ hdr[2] # ADMIN_TOKEN

\* An administrative request arrives at slot r in this step.
AdminArrived(r) ==
  /\ reqs[r].pc = "idle"
  /\ reqs'[r].op \in {"claim", "score", "resolve", "queue", "toggle", "preview"}

\* The step is that of an administrative request with header hdr at slot r.
AdminRequest(r, hdr) ==
  CASE reqs'[r].op = "claim" ->
         \E method \in AdminMethods, id \in Ids :
           ClaimUpdate(r, hdr, method, id, NULL)
    [] reqs'[r].op = "score" ->
         \E method \in AdminMethods, id \in Ids :
           ScoreUpsert(r, hdr, method, id, NULL, P40, NULL)
    [] reqs'[r].op = "preview" ->
         \E method \in AdminMethods, id \in Ids :
           UploadPreview(r, hdr, method, TRUE, id, "mp3")
    [] reqs'[r].op = "resolve" ->
         \E id \in Ids, w \in {"DONE", "NEW"} : Resolve(r, hdr, id, w)
    [] reqs'[r].op = "queue" -> AdminQueue(r, hdr)
    [] reqs'[r].op = "toggle" ->
         \E method \in AdminMethods, open_in \in BOOLEAN :
           AdminToggle(r, hdr, method, open_in)
    [] OTHER -> FALSE

\* C29: a claim, score, resolve, queue view, toggle or preview upload request
\* whose header carries no bearer credential or another one than the
\* configured secret, or that arrives when no secret is configured, is
\* answered 401 and changes nothing that is stored, whatever its method and
\* body: a step of such a request that is answered otherwise, or that changes
\* something, is the step of no request with a denied header.
C29_AdminDenied ==
  [][\A r \in Slots :
       (/\ AdminArrived(r)
        /\ ~(/\ reqs'[r].pc = "done" /\ reqs'[r].code = 401
             /\ UNCHANGED <<ADMIN_TOKEN, settings, submissions, scores, votes,
                            vote_ip_locks, sessions>>)) =>
         \A hdr \in AdminHeaders : Denied(hdr) => ~AdminRequest(r, hdr)]_vars

\* With the secret configured, a claim and a resolve of submission 1, which
\* is NEW and unclaimed, were both answered 401 and it is still NEW and
\* unclaimed.
C29_Witness ==
  /\ ADMIN_TOKEN = Secret
  /\ submissions[1].status = "NEW" /\ submissions[1].claimed_by = NULL
  /\ \E r, q \in Slots :
       /\ reqs[r].op = "claim" /\ reqs[r].code = 401
       /\ reqs[q].op = "resolve" /\ reqs[q].code = 401


\* ---------------------------------------------------------------- SpecVoteKeep
\* Votes while judges score and resolve and payments are made and confirmed.
KeepVoteReq ==
  \E r \in Slots, rating \in {14, 20}, cookie \in {NULL, <<"u">>},
     ip \in Addresses :
    VoteCheck(r, TRUE, 1, rating, cookie, ip)
KeepScoreReq ==
  \E r \in Slots : ScoreUpsert(r, GoodAuth, "POST", 1, NULL, P40, NULL)
KeepResolveReq == \E r \in Slots : Resolve(r, GoodAuth, 1, "DONE")
KeepPaidReq ==
  \E r \in Slots : PaidStart(r, "POST", TRUE, 0, "skip", Song1, TRUE)

NextVoteKeep ==
  \/ KeepScoreReq
  \/ ScoreAnswer
  \/ KeepVoteReq
  \/ VoteLockStep
  \/ VoteInsertStep
  \/ VoteCompensateStep
  \/ VoteAnswer
  \/ KeepResolveReq
  \/ KeepPaidReq
  \/ PaidSession
  \/ PaidAnswer
  \/ NotifyReq
  \/ Take

SpecVoteKeep == Init /\ [][NextVoteKeep]_vars

VoteCount(sid) == Cardinality({v \in votes : v.submission_id = sid})

\* C30: no step of a vote, score, resolve or payment request changes or
\* removes a vote record that exists, and the number of votes of a submission
\* never decreases.
C30_VotesKept ==
  [][/\ votes \subseteq votes'
     /\ \A sid \in Ids : VoteCount(sid)' >= VoteCount(sid)]_vars

\* A vote for submission 1 is stored, a later vote request for submission 1
\* was answered 409, and a resolve of submission 1 was answered 200.
C30_Witness ==
  /\ \E v \in votes : v.submission_id = 1
  /\ \E r, q \in Slots :
       /\ reqs[r].op = "vote" /\ reqs[r].pc = "done" /\ reqs[r].code = 409
       /\ reqs[r].id = 1
       /\ reqs[q].op = "resolve" /\ reqs[q].code = 200 /\ reqs[q].id = 1


\* ---------------------------------------------------------------- SpecScoreAny
\* Score requests by two judges while judges claim: submission 1 has any
\* status and owner, the other submissions, if there are any, are REJECTED.
InitScoreAny ==
  /\ ADMIN_TOKEN = Secret
  /\ now = 1
  /\ settings = [k \in {"submissions_open"} |-> "1"]
  /\ \E row \in ResolveRows, last \in {NoRow, RaceRow(<<"REJECTED", NULL>>)} :
       submissions = [i \in Ids |-> IF i = 1 THEN row ELSE last]
  /\ scores = [i \in Ids |-> NoRow]
  /\ votes = {}
  /\ vote_ip_locks = {}
  /\ sessions = <<>>
  /\ reqs = [r \in Slots |-> Idle]

Scorers == {NULL, Judge2}

AnyScoreReq ==
  \E r \in Slots, id \in Ids, by \in Scorers, parts \in {P40, P39} :
    ScoreUpsert(r, GoodAuth, "POST", id, by, parts, NULL)
AnyClaimReq ==
  \E r \in Slots, id \in Ids, by \in Scorers :
    ClaimUpdate(r, GoodAuth, "POST", id, by)

NextScoreAny ==
  \/ AnyScoreReq
  \/ ScoreAnswer
  \/ AnyClaimReq
  \/ ClaimAnswer
  \/ Take

SpecScoreAny == InitScoreAny /\ [][NextScoreAny]_vars

\* A score request arrives at slot r in this step.
ScoreArrived(r) == reqs[r].pc = "idle" /\ reqs'[r].op = "score"

\* C31: an authorized POST score request with valid sub-scores is accepted
\* whatever the submission's status and owner: it stores the Score with the
\* request's judge and total, then sets the status of the submission to SCORED
\* and changes nothing else of it, and is answered 200; the judge is not
\* compared with claimed_by.
C31_ScoreAnyStatus ==
  [][\A r \in Slots :
       /\ ScoreArrived(r) =>
            \A id \in Ids, by \in Scorers, parts \in {P40, P39} :
              ScoreUpsert(r, GoodAuth, "POST", id, by, parts, NULL) =>
                /\ reqs'[r].pc = "setstatus" /\ reqs'[r].id = id
                /\ Exists(scores'[id])
                /\ scores'[id].scored_by = OrDefault(by, Desktop)
                /\ scores'[id].total = Total(parts)
                /\ submissions' = submissions
       /\ \A i \in Ids :
            ScoreSets(r, i) =>
              /\ reqs'[r].code = 200
              /\ Exists(submissions[i]) =>
                   submissions'[i] = [submissions[i] EXCEPT !.status = "SCORED"]]_vars

\* Submission 1 is in review by the desktop judge when another judge's score
\* of it has been stored, and submission 2, which was REJECTED at the start,
\* is SCORED after a score request was answered 200.
C31_Witness ==
  /\ Exists(scores[1]) /\ scores[1].scored_by = Judge2
  /\ submissions[1].status \in {"IN_REVIEW", "SCORED"}
  /\ submissions[1].claimed_by = Desktop
  /\ Exists(scores[2]) /\ submissions[2].status = "SCORED"
  /\ \E r \in Slots : reqs[r].op = "score" /\ reqs[r].code = 200 /\ reqs[r].id = 2


\* C32: after an accepted score write the stored Score of the submission is
\* exactly what the write carries, as if there had been no Score before: no
\* attribute of the record it replaces, such as a preview reference attached
\* earlier, survives.
C32_FullOverwrite ==
  [][\A r \in Slots :
       (ScoreArrived(r) /\ reqs'[r].pc = "setstatus") =>
         \A sid \in 0..1, parts \in ScoreBodies :
           ScoreUpsert(r, GoodAuth, "POST", sid, NULL, parts, NULL) =>
             scores'[sid] = ScoreUpsertRow(NoRow, Desktop, parts, NULL)]_vars


\* ---------------------------------------------------------------- SpecDupe
\* Submit requests sent one after another whose artist and title differ in
\* letter case, in whitespace at the ends and in the length of an inner run of
\* whitespace, each with its own uploaded object, while a judge claims.
DupeNames ==
  {<<"A", " ", "b">>, <<"a", " ", "B">>, <<" ", "A", " ", "b", " ">>,
   <<"A", " ", " ", "b">>}
DupeTitles == {<<"a">>, <<"A", " ">>}

DupeSubmitReq ==
  \E r \in Slots, artist \in DupeNames, title \in DupeTitles, track \in Tracks :
    /\ NoSubmitRunning
    /\ SubmitOpen(r, "POST", TRUE, artist, title, TRUE, track)

NextDupe ==
  \/ DupeSubmitReq
  \/ SubmitStep
  \/ SeqClaimReq
  \/ ClaimAnswer
  \/ Take

SpecDupe == Init /\ [][NextDupe]_vars

\* An active stored submission has the artist and title of request q once
\* both are lowercased, their whitespace runs collapsed and their ends trimmed.
SamePairStored(q) ==
  \E i \in Ids :
    /\ Exists(submissions[i]) /\ Active(submissions[i])
    /\ NormJs(submissions[i].artist_name) = NormJs(q.artist)
    /\ NormJs(submissions[i].track_title) = NormJs(q.title)

\* C33: the artist-and-title check of a submit request treats a stored active
\* submission as the same pair when the two differ only in letter case,
\* whitespace at the ends or the length of inner whitespace runs: the request
\* is then answered 409 and creates nothing.
C33_SamePairRejected ==
  [][\A r \in Slots :
       (/\ reqs[r].op = "submit" /\ reqs[r].pc = "dupeName"
        /\ reqs'[r] # reqs[r]
        /\ SamePairStored(reqs[r])) =>
         /\ reqs'[r].pc = "done" /\ reqs'[r].code = 409
         /\ submissions' = submissions]_vars


\* ---------------------------------------------------------------- SpecOwner
\* Claims with every kind of claimant (omitted, whitespace only, a name with
\* a leading space) among score, resolve, submit, paid checkout and
\* notification requests.
OwnerClaimReq ==
  \E r \in Slots, id \in Ids, by \in Claimants :
    ClaimUpdate(r, GoodAuth, "POST", id, by)

NextOwner ==
  \/ OwnerClaimReq
  \/ ClaimAnswer
  \/ OwnResolveReq
  \/ OwnScoreReq
  \/ ScoreAnswer
  \/ SubmitReq
  \/ SubmitStep
  \/ TermPaidReq
  \/ PaidSession
  \/ PaidAnswer
  \/ WebhookReq
  \/ Take

SpecOwner == Init /\ [][NextOwner]_vars


\* A claim request arrives at slot r in this step.
ClaimArrived(r) == reqs[r].pc = "idle" /\ reqs'[r].op = "claim"

\* C34: claimed_by and claimed_at of every submission are both set
\* or both empty, an owner that is NULL or the empty string being empty.
C34_BothOrNeither ==
  \A i \in Ids :
    Exists(submissions[i]) =>
      (submissions[i].claimed_by \in {NULL, Empty}
         <=> submissions[i].claimed_at = NullAt)

\* What holds of the two fields: claimed_by is NULL exactly when claimed_at is
\* NULL, for every submission; the two change only in the step of an accepted
\* claim, which writes both (the owner possibly as the empty string), and in
\* the step of an accepted resolve, which sets both to NULL; score, submit,
\* paid checkout and payment confirmation write neither.
C34_OwnerAndTime ==
  /\ [](\A i \in Ids :
          Exists(submissions[i]) =>
            (submissions[i].claimed_by = NULL
               <=> submissions[i].claimed_at = NullAt))
  /\ [][\A i \in Ids :
          (/\ Exists(submissions[i])
           /\ \/ submissions'[i].claimed_by # submissions[i].claimed_by
              \/ submissions'[i].claimed_at # submissions[i].claimed_at) =>
            \/ \E r \in Slots :
                 /\ ClaimArrived(r) /\ reqs'[r].pc = "select" /\ reqs'[r].id = i
                 /\ submissions'[i].claimed_by # NULL
                 /\ submissions'[i].claimed_at = now
            \/ \E r \in Slots :
                 /\ Resolved(r) /\ reqs'[r].code = 200 /\ reqs'[r].id = i
                 /\ submissions'[i].claimed_by = NULL
                 /\ submissions'[i].claimed_at = NullAt]_vars


\* C35: every submission with status IN_REVIEW has a non-empty claimed_by,
\* whatever claimant the claim requests carry (omitted, whitespace only, a
\* name).
C35_ReviewHasOwner ==
  \A i \in Ids :
    (Exists(submissions[i]) /\ submissions[i].status = "IN_REVIEW") =>
      submissions[i].claimed_by \notin {NULL, Empty}


\* Submission i has been claimed and not resolved since.
WasClaimed(i) == Exists(submissions[i]) /\ submissions[i].claimed_at # NullAt

\* C36: the step in which a score request sets the status leaves claimed_by
\* and claimed_at as they are, so a submission that was claimed is then SCORED
\* with a non-empty owner, and a later claim of a SCORED submission that was
\* claimed is answered 409 and changes nothing; a claim of a SCORED submission
\* is accepted only if its claimed_by is empty.
C36_ScoredKeepsOwner ==
  [][\A r \in Slots :
       /\ \A i \in Ids :
            (ScoreSets(r, i) /\ Exists(submissions[i])) =>
              /\ submissions'[i].claimed_by = submissions[i].claimed_by
              /\ submissions'[i].claimed_at = submissions[i].claimed_at
              /\ WasClaimed(i) =>
                   /\ submissions'[i].status = "SCORED"
                   /\ submissions'[i].claimed_by \notin {NULL, Empty}
       /\ \A i \in Ids :
            (/\ ClaimArrived(r) /\ reqs'[r].id = i
             /\ Exists(submissions[i]) /\ submissions[i].status = "SCORED") =>
              /\ WasClaimed(i) =>
                   reqs'[r].code = 409 /\ submissions' = submissions
              /\ reqs'[r].pc = "select" =>
                   submissions[i].claimed_by \in {NULL, Empty}]_vars


\* ---------------------------------------------------------------- SpecRepay
\* A submission whose payment was confirmed through an earlier checkout
\* session, and the requests that can follow: paid checkouts that name it,
\* notifications, claim, score and resolve.
EarlierSession == MaxSessions + 1

PaidRow(paid_type) ==
  [PaidIntentRow(Song1.artist, Song1.title, Song1.track, paid_type) EXCEPT
     !.payment_status = "PAID",
     !.paid = 1,
     !.stripe_session_id = EarlierSession]

InitRepay ==
  /\ ADMIN_TOKEN = Secret
  /\ now = 0
  /\ settings = [k \in {"submissions_open"} |-> "1"]
  /\ \E paid_type \in {"SKIP", "UPNEXT"} :
       submissions = [i \in Ids |-> IF i = 1 THEN PaidRow(paid_type) ELSE NoRow]
  /\ scores = [i \in Ids |-> NoRow]
  /\ votes = {}
  /\ vote_ip_locks = {}
  /\ sessions = <<>>
  /\ reqs = [r \in Slots |-> Idle]

RepayReq ==
  \E r \in Slots, id \in Ids, ptype \in {"skip", "upnext"} :
    PaidStart(r, "POST", TRUE, id, ptype, Song1, TRUE)

NextRepay ==
  \/ RepayReq
  \/ PaidSession
  \/ PaidAnswer
  \/ NotifyReq
  \/ JudgeClaimReq
  \/ ClaimAnswer
  \/ OwnScoreReq
  \/ ScoreAnswer
  \/ OwnResolveReq
  \/ Take

SpecRepay == InitRepay /\ [][NextRepay]_vars

\* C37: a submission whose payment_status is PAID keeps it: no step of a
\* notification, of a paid checkout that names the submission, or of a claim,
\* score or resolve request sets it to anything else.
C37_PaidStaysPaid ==
  [][\A i \in Ids :
       (Exists(submissions[i]) /\ submissions[i].payment_status = "PAID") =>
         submissions'[i].payment_status = "PAID"]_vars


\* ---------------------------------------------------------------- fan leaderboard
RECURSIVE SumRatings(_)
SumRatings(S) ==
  IF S = {} THEN 0
  ELSE LET v == CHOOSE x \in S : TRUE IN v.rating + SumRatings(S \ {v})

VotesOf(sid) == {v \in votes : v.submission_id = sid}

\* ROUND(AVG(v.rating), 2), in hundredths
FanAvg(sid) ==
  LET n == Cardinality(VotesOf(sid)) IN
  (200 * SumRatings(VotesOf(sid)) + n) \div (2 * n)

\* A variant: without the WHERE clause
BoardWhereAny(sc) == TRUE

\* WHERE sc.total >= 40
BoardWhere(sc) == sc.total >= 40

\* FROM votes v JOIN submissions sub JOIN scores sc WHERE ... GROUP BY
\* v.submission_id HAVING COUNT(*) >= ?
BoardIds(minVotes) ==
  {sid \in Ids :
     /\ VotesOf(sid) # {}
     /\ Exists(submissions[sid])
     /\ Exists(scores[sid])
     /\ BoardWhere(scores[sid])
     /\ Cardinality(VotesOf(sid)) >= minVotes}

BoardItem(sid) ==
  [submission_id |-> sid, fan_avg |-> FanAvg(sid),
   fan_votes |-> Cardinality(VotesOf(sid)),
   judge_total |-> scores[sid].total]

\* ORDER BY fan_avg DESC, fan_votes DESC
BoardBefore(a, b) ==
  \/ a.fan_avg > b.fan_avg
  \/ a.fan_avg = b.fan_avg /\ a.fan_votes >= b.fan_votes

\* The orders the query may answer in (rows equal in both keys come in either
\* order; LIMIT 50 is above the number of rows of the model).
BoardOrders(minVotes) ==
  LET S == BoardIds(minVotes) IN
  {[k \in DOMAIN o |-> BoardItem(o[k])] :
     o \in {p \in [1..Cardinality(S) -> S] :
              /\ \A i, j \in DOMAIN p : i # j => p[i] # p[j]
              /\ \A i, j \in DOMAIN p :
                   i < j => BoardBefore(BoardItem(p[i]), BoardItem(p[j]))}}

\* The whole handler: the answer's items.
LeaderboardGet(r, minVotes) ==
  /\ reqs[r].pc = "idle"
  /\ \E items \in BoardOrders(minVotes) :
       reqs' = [reqs EXCEPT ![r] =
                  [Done("board", 200, 0, NULL) EXCEPT !.items = items]]
  /\ UNCHANGED <<ADMIN_TOKEN, now, settings, submissions, scores, votes,
                 vote_ip_locks, sessions>>

\* ---------------------------------------------------------------- SpecFans
\* Fans vote for two stored submissions from two slots at once, no store
\* operation failing but by a uniqueness violation and every request running
\* to its answer, while a judge scores and scores again and the leaderboard
\* is read.
InitFans ==
  /\ ADMIN_TOKEN = Secret
  /\ now = 0
  /\ settings = [k \in {"submissions_open"} |-> "1"]
  /\ submissions = [i \in Ids |-> RaceRow(<<"NEW", NULL>>)]
  /\ scores = [i \in Ids |-> NoRow]
  /\ votes = {}
  /\ vote_ip_locks = {}
  /\ sessions = <<>>
  /\ reqs = [r \in Slots |-> Idle]

FanScoreReq ==
  \E r \in Slots, sid \in Ids, parts \in {P40, P39} :
    ScoreUpsert(r, GoodAuth, "POST", sid, NULL, parts, NULL)
FanVoteReq ==
  \E r \in Slots, sid \in Ids, rating \in {14, 20},
     cookie \in {NULL, <<"u">>}, ip \in Addresses :
    VoteCheck(r, TRUE, sid, rating, cookie, ip)
FanLockStep == \E r \in Slots : VoteLock(r, FALSE)
FanInsertStep == \E r \in Slots : VoteInsert(r, FALSE)
FanCompensateStep == \E r \in Slots : VoteCompensate(r, FALSE)
BoardReq == \E r \in Slots, minVotes \in 0..2 : LeaderboardGet(r, minVotes)

NextFans ==
  \/ FanScoreReq
  \/ ScoreAnswer
  \/ FanVoteReq
  \/ FanLockStep
  \/ FanInsertStep
  \/ FanCompensateStep
  \/ VoteAnswer
  \/ BoardReq
  \/ Take

SpecFans == InitFans /\ [][NextFans]_vars


\* C38 as stated: every stored vote refers to a submission whose score row
\* now has total >= 40.
C38_VotesOfApproved ==
  \A v \in votes : ApprovedNow(v.submission_id)

\* In this step slot r gets the leaderboard's answer.
BoardArrived(r) == reqs[r].pc = "idle" /\ reqs'[r].op = "board"

\* C38 (as amended): every stored vote refers to a submission that has a
\* score row, whose total may by now be below 40; the leaderboard's answer
\* lists a submission at most once, and only one that has a stored vote and
\* a score row whose total is now 40 or more, with that total.
C38_VotesScoredBoardApproved ==
  /\ [](\A v \in votes :
          v.submission_id \in Ids /\ Exists(scores[v.submission_id]))
  /\ [][\A r \in Slots :
          BoardArrived(r) =>
            LET items == reqs'[r].items IN
            /\ reqs'[r].code = 200
            /\ \A i, j \in DOMAIN items :
                 i # j => items[i].submission_id # items[j].submission_id
            /\ \A i \in DOMAIN items :
                 /\ ApprovedNow(items[i].submission_id)
                 /\ VotesOf(items[i].submission_id) # {}
                 /\ items[i].judge_total = scores[items[i].submission_id].total
                 /\ items[i].judge_total >= 40]_vars

\* Votes for submissions 1 and 2 are stored, submission 1 has since been
\* scored 39, and the leaderboard answered with submission 2 alone.
C38_Witness ==
  /\ \E v \in votes : v.submission_id = 1
  /\ \E v \in votes : v.submission_id = 2
  /\ Exists(scores[1]) /\ scores[1].total = 39
  /\ \E r \in Slots :
       /\ reqs[r].op = "board" /\ reqs[r].pc = "done"
       /\ Len(reqs[r].items) = 1 /\ reqs[r].items[1].submission_id = 2


\* ---------------------------------------------------------------- C39
\* No vote request is between its check and its answer.
NoVoteInFlight ==
  \A r \in Slots : reqs[r].op = "vote" => reqs[r].pc = "done"

LockFor(sid, ip_hash) ==
  \E l \in vote_ip_locks : l.submission_id = sid /\ l.ip_hash = ip_hash

VoteFor(sid, ip_hash) ==
  \E v \in votes : v.submission_id = sid /\ v.ip_hash = ip_hash

IpHashes == {sha256Hex(getClientIp(ip), VOTE_SALT) : ip \in Addresses}

\* C39: when vote requests interleave, each running to its answer and no
\* store operation failing but by a uniqueness violation, then whenever no
\* vote request is in flight a lock exists for a submission and an address
\* hash iff a vote with that submission and address hash exists; and no step
\* removes a lock for which a vote is recorded.
C39_LockIffVote ==
  /\ [](NoVoteInFlight =>
          \A sid \in Ids, ip_hash \in IpHashes :
            LockFor(sid, ip_hash) <=> VoteFor(sid, ip_hash))
  /\ [][\A l \in vote_ip_locks :
          VoteFor(l.submission_id, l.ip_hash) => l \in vote_ip_locks']_vars

\* The voter "u" has a vote for submission 1 from address "9" with its lock;
\* the same voter's request from an unknown address was answered 409 after
\* its compensating delete, and no lock of that address is left.
C39_Witness ==
  /\ NoVoteInFlight
  /\ \E v \in votes :
       /\ v.submission_id = 1 /\ v.voter_id = <<"u">>
       /\ v.ip_hash = sha256Hex(<<"9">>, VOTE_SALT)
  /\ LockFor(1, sha256Hex(<<"9">>, VOTE_SALT))
  /\ ~LockFor(1, sha256Hex(getClientIp(NULL), VOTE_SALT))
  /\ \E r \in Slots :
       /\ reqs[r].op = "vote" /\ reqs[r].pc = "done" /\ reqs[r].code = 409
       /\ reqs[r].tag = "unique" /\ reqs[r].id = 1
       /\ reqs[r].ip = sha256Hex(getClientIp(NULL), VOTE_SALT)

====
